---- MODULE Spec2Model ----
(***************************************************************************)
(* SandboxService (src/modules/sandbox/services/sandbox.service.ts): the   *)
(* per-project sandbox registry, the inactivity timers, and the            *)
(* asynchronous operations that create, resume, pause and kill sandboxes   *)
(* at the remote provider (E2B) and persist the sandbox id in the          *)
(* projects table (Supabase); on top of them processFragment, which        *)
(* deploys a fragment into the project's sandbox, executeSandboxOperation  *)
(* and the POST handler of app/api/projects/[projectId]/sandbox/route.ts.  *)
(*                                                                         *)
(* Every async method is a task that runs one atomic step between two      *)
(* awaits: a step takes the answer of the call the task is suspended on    *)
(* and runs the code up to the next await (or to the return/throw).        *)
(***************************************************************************)
EXTENDS Naturals, FiniteSets, Sequences, TLC

\* ------------------------------------------------------------- bounds
MaxHandles == 2
MaxTasks == 2
MaxTime == 3

Projects == {"p1", "p2"}
Handles == 1..MaxHandles
NoHandle == 0
TaskIds == 1..MaxTasks

VARIABLES
  supabase,         \* deps.supabase is a client (TRUE) or null (FALSE)
  sandboxServiceInstance,  \* the singleton of the accessor: set (TRUE) or null
  isInitialized,    \* BaseService.isInitialized of the service
  now,              \* the time, in ticks
  expiry,           \* provider side: when the timeout of a sandbox id runs out
  deadline,         \* Node: when the pending timeout of a project is due
  activeSandboxes,  \* Map projectId -> Sandbox (by sandboxId), NoHandle = absent
  sandboxTimeouts,  \* Map projectId -> Timeout: "none" | "armed" | "fired"
  timers,           \* Node: per project, the timeouts scheduled and pending
  db,               \* projects.sandbox_id per project, NoHandle = null
  remote,           \* provider side: state of every sandbox id
  owner,            \* provider side: metadata.projectId of every sandbox id
  tasks,            \* the async calls in flight
  last,             \* the call that returned or threw in the step just taken
  prev              \* history: the preceding call, if it returned a sandbox

vars == <<supabase, sandboxServiceInstance, isInitialized, now, expiry, deadline,
          activeSandboxes, sandboxTimeouts, timers, db, remote, owner, tasks,
          last, prev>>

\* What no operation of the service changes: its client, its life cycle
\* (changed by the accessor, initialize and cleanup only) and the time.
setup == <<supabase, sandboxServiceInstance, isInitialized, now>>

\* A pauseProject that paused a sandbox: the sandbox it paused, the id that
\* pause() returned and the answer of its update of the row.
NoPause == [proj |-> "none", sbx |-> NoHandle, hid |-> NoHandle, store |-> "none"]

NoPrev == [proj |-> "none", ret |-> NoHandle, nCreate |-> 0, pause |-> NoPause]

\* killProject of one project inside a killAllSandboxes batch: where it is,
\* the sandbox it found, the kill() calls answered and the last answer.
NoSub == [pc |-> "skip", sbx |-> NoHandle, n |-> 0, call |-> "none"]

\* One call: the operation, its project, the await it is suspended on (pc),
\* its local variables (sbx: sandbox / activeSandbox, hid: the sandbox id read
\* from the row or returned by pause) and what it has seen so far: the probe's
\* answer, the row's sandbox_id when it was read (held), a failed resume, the
\* create calls made, the answer of its provider call (create, pause, kill)
\* and of its update of the row (extend: the answer of sandbox.setTimeout,
\* read: the answer of the select).
\* A thrown ServiceError shows its code and its cause.
\* A getOrCreateProjectSandbox call made by processFragment, or a pauseProject
\* call made by executeSandboxOperation, carries the caller in `outer` and
\* the caller's arguments and locals: the operation, the fragment's template
\* and has_additional_dependencies, whether auth holds an access token, the
\* sandbox calls issued (steps) and answered (fin), the answer of the
\* last_activity update, of runCode and of the analytics sink, the events
\* the sink captured, and the variant of the result. A call made by the POST
\* handler carries route = TRUE and the status of the Response.
IdleTask ==
  [op |-> "idle", proj |-> "none", pc |-> "idle", sbx |-> NoHandle,
   hid |-> NoHandle, held |-> NoHandle, timer |-> FALSE, probe |-> "none",
   resumeFailed |-> FALSE, nCreate |-> 0, call |-> "none", store |-> "none",
   res |-> "none", ret |-> NoHandle, before |-> NoPrev,
   sub |-> [p \in Projects |-> NoSub],
   extend |-> "none", read |-> "none", code |-> "none", cause |-> "none",
   outer |-> "none", oper |-> "none", hasFragment |-> FALSE,
   template |-> "none", deps |-> FALSE, token |-> FALSE,
   steps |-> <<>>, fin |-> 0, failed |-> "none", touch |-> "none",
   runtimeError |-> FALSE, sink |-> "none", emitted |-> 0,
   variant |-> "none", route |-> FALSE, status |-> 0]

Active(t) == tasks[t].pc # "idle"

\* A new call takes the first slot that holds no call in flight.
Free(t) == ~Active(t) /\ \A u \in TaskIds : u < t => Active(u)

NoneActive == \A t \in TaskIds : ~Active(t)

\* ------------------------------------------------------------ provider
\* The sandbox id the provider hands out next.
HasFresh == \E h \in Handles : remote[h] = "unused"
Fresh == CHOOSE h \in Handles : remote[h] = "unused" /\
                                \A g \in Handles : g < h => remote[g] # "unused"

\* Sandbox.isRunning(): the answers the provider can give for a sandbox.
ProbeOutcomes(h) ==
  IF remote[h] = "live" THEN {"true", "throw"} ELSE {"false", "throw"}

\* Ids a successful pause() or resume() of h can return: h, or a rotated id.
Rotations(h) == {h} \cup (IF HasFresh THEN {Fresh} ELSE {})

\* Provider state after h was replaced by h2 in state st (h2 = h: no rotation).
Rotate(h, h2, st) ==
  IF h2 = h THEN [remote EXCEPT ![h] = st]
  ELSE [remote EXCEPT ![h] = "gone", ![h2] = st]

RotateOwner(h, h2) == [owner EXCEPT ![h2] = owner[h]]

\* -------------------------------------------------------------- timers
\* Line 9: the timeout asked of the provider (lines 97, 131, 149) and the
\* delay of the local timer (line 305), in ticks.
SANDBOX_TIMEOUT == 2

\* Lines 311-313: clearTimeout of the handle the map holds for p. The
\* timeouts of p left pending: a handle that has fired is no longer pending,
\* and clearing it does nothing.
clearTimeout(p) ==
  IF sandboxTimeouts[p] = "armed" THEN timers[p] - 1 ELSE timers[p]

\* setSandboxTimeout that schedules the new timeout without clearing the
\* one the map holds.
setSandboxTimeout_NoClear(p) ==
  /\ sandboxTimeouts' = [sandboxTimeouts EXCEPT ![p] = "armed"]
  /\ timers' = [timers EXCEPT ![p] = timers[p] + 1]
  /\ deadline' = [deadline EXCEPT ![p] = now + SANDBOX_TIMEOUT]

\* setSandboxTimeout: clear the existing timer, schedule a new timeout and
\* put its handle in the map.
setSandboxTimeout(p) ==
  /\ sandboxTimeouts' = [sandboxTimeouts EXCEPT ![p] = "armed"]
  /\ timers' = [timers EXCEPT ![p] = clearTimeout(p) + 1]
  /\ deadline' = [deadline EXCEPT ![p] = now + SANDBOX_TIMEOUT]

\* clearSandboxTimeout: clearTimeout and delete the map entry.
clearSandboxTimeout(p) ==
  /\ sandboxTimeouts' = [sandboxTimeouts EXCEPT ![p] = "none"]
  /\ timers' = [timers EXCEPT ![p] = clearTimeout(p)]
  /\ deadline' = [deadline EXCEPT ![p] = 0]

resetSandboxTimeout(p) == setSandboxTimeout(p)

\* ------------------------------------------------------------ results
\* A call goes on to its next await.
Step(t, rec) ==
  /\ tasks' = [tasks EXCEPT ![t] = rec]
  /\ last' = IdleTask
  /\ prev' = prev

\* The code of the ServiceError that the catch of each method throws.
ErrorCode(op) ==
  CASE op = "ensure" -> "SANDBOX_CREATE_ERROR"
    [] op = "pause" -> "SANDBOX_PAUSE_ERROR"
    [] op = "fragment" -> "FRAGMENT_PROCESSING_ERROR"
    [] op = "operation" -> "SANDBOX_OPERATION_ERROR"
    [] OTHER -> "none"

\* Response with a catch that answers like the success path.
Response_AlwaysOk(rec, res) ==
  IF rec.op = "post" THEN 400 ELSE 200

\* The status of the Response the POST handler answers with: 400 without a
\* fragment, the default 200 with the result of the service call, 500 from
\* the catch.
Response(rec, res) ==
  IF rec.op = "post" THEN 400
  ELSE IF res = "ok" THEN 200 ELSE 500

\* A call returns (res = "ok", ret the value) or throws (res = "error") to
\* its caller outside the service: its slot is free again and `last` shows
\* the call for one step. `prev` keeps an ensure call that returned a
\* sandbox, or a pause call that paused one.
Return(t, rec, res, ret) ==
  /\ tasks' = [tasks EXCEPT ![t] = IdleTask]
  /\ last' = [rec EXCEPT !.pc = "done", !.res = res, !.ret = ret,
                         !.before = prev,
                         !.code = IF res = "error" /\ rec.cause # "NOT_INITIALIZED"
                                  THEN ErrorCode(rec.op)
                                  ELSE "none",
                         !.status = IF rec.route THEN Response(rec, res) ELSE 0]
  /\ prev' = IF rec.op = "ensure" /\ res = "ok"
             THEN [proj |-> rec.proj, ret |-> ret, nCreate |-> rec.nCreate,
                   pause |-> NoPause]
             ELSE IF rec.op \in {"pause", "operation"} /\ res = "ok" /\ rec.call = "ok"
             THEN [NoPrev EXCEPT !.pause = [proj |-> rec.proj, sbx |-> rec.sbx,
                                            hid |-> rec.hid, store |-> rec.store]]
             ELSE NoPrev

\* processFragment, lines 337-353: getOrCreateProjectSandbox has returned the
\* sandbox, or thrown, which the catch of line 391 wraps. With a sandbox the
\* install command is run when the fragment has additional dependencies, and
\* otherwise the file is written.
FragAfterEnsure(t, rec, res, ret) ==
  IF res = "error"
  THEN Return(t, [rec EXCEPT !.op = "fragment", !.failed = "ensure",
                             !.cause = ErrorCode("ensure")],
              "error", NoHandle)
  ELSE LET next == IF rec.deps THEN "install" ELSE "write"
       IN Step(t, [rec EXCEPT !.op = "fragment", !.sbx = ret, !.ret = ret,
                              !.fin = 1, !.pc = next,
                              !.steps = Append(rec.steps, next)])

\* executeSandboxOperation, lines 411-427: pauseProject has returned, and
\* success is returned, or thrown, which the catch of line 420 wraps.
OperationAfterPause(t, rec, res) ==
  Return(t, [rec EXCEPT !.op = "operation",
                        !.cause = IF res = "error" THEN ErrorCode("pause")
                                  ELSE "none"],
         res, NoHandle)

\* getOrCreateProjectSandbox, pauseProject or killProject returns or throws:
\* to processFragment or executeSandboxOperation when one of them made the
\* call, and otherwise to the caller outside.
Done(t, rec, res, ret) ==
  IF rec.outer = "fragment" THEN FragAfterEnsure(t, rec, res, ret)
  ELSE IF rec.outer = "operation" THEN OperationAfterPause(t, rec, res)
  ELSE Return(t, rec, res, ret)

\* A call that starts and suspends on its first await. `prev` survives only
\* the start of a further ensure call for the same project.
Begin(t, rec) ==
  /\ tasks' = [tasks EXCEPT ![t] = rec]
  /\ last' = IdleTask
  /\ prev' = IF rec.op = "ensure" /\ rec.outer = "none"
                /\ rec.proj \in {prev.proj, prev.pause.proj}
             THEN prev ELSE NoPrev

\* ensureInitialized that never throws: the call goes on.
ensureInitialized_Skipped(t, rec, body) == body

\* base.service.ts lines 67-71, the first statement of every public method:
\* a service that is not initialized throws (a plain Error, outside the try
\* of the method) before the call does anything; otherwise the call (body)
\* goes on. rec names the call.
ensureInitialized(t, rec, body) ==
  IF isInitialized THEN body
  ELSE Return(t, [rec EXCEPT !.cause = "NOT_INITIALIZED"], "error", NoHandle)

TypeOK ==
  /\ supabase \in BOOLEAN
  /\ sandboxServiceInstance \in BOOLEAN /\ isInitialized \in BOOLEAN
  /\ now \in Nat
  /\ expiry \in [Handles -> Nat] /\ deadline \in [Projects -> Nat]
  /\ activeSandboxes \in [Projects -> Handles \cup {NoHandle}]
  /\ sandboxTimeouts \in [Projects -> {"none", "armed", "fired"}]
  /\ timers \in [Projects -> Nat]
  /\ db \in [Projects -> Handles \cup {NoHandle}]
  /\ remote \in [Handles -> {"unused", "live", "paused", "gone"}]
  /\ owner \in [Handles -> Projects \cup {"none"}]
  /\ \A t \in TaskIds : tasks[t].op \in {"idle", "ensure", "pause", "kill", "killAll",
                                         "cleanup", "fragment", "accessor"}
  /\ \A t \in TaskIds : tasks[t].outer \in {"none", "fragment", "operation"}
  /\ last.status \in {0, 200, 400, 500}
  /\ last.pc \in {"idle", "done"}
  /\ prev.ret \in Handles \cup {NoHandle}
  /\ prev.pause.hid \in Handles \cup {NoHandle}

\* The service that the accessor has constructed and initialized.
Init ==
  /\ supabase \in BOOLEAN
  /\ sandboxServiceInstance = TRUE /\ isInitialized = TRUE
  /\ now = 0
  /\ expiry = [h \in Handles |-> 0] /\ deadline = [p \in Projects |-> 0]
  /\ activeSandboxes = [p \in Projects |-> NoHandle]
  /\ sandboxTimeouts = [p \in Projects |-> "none"]
  /\ timers = [p \in Projects |-> 0]
  /\ db = [p \in Projects |-> NoHandle]
  /\ remote = [h \in Handles |-> "unused"]
  /\ owner = [h \in Handles |-> "none"]
  /\ tasks = [t \in TaskIds |-> IdleTask]
  /\ last = IdleTask
  /\ prev = NoPrev

\* ------------------------------------------- getOrCreateProjectSandbox
\* AfterProbe without the test of line 108: the call goes on to the select
\* whether or not there is a Supabase client.
AfterProbe_NoCheck(t, rec, first) ==
  IF first THEN Begin(t, [rec EXCEPT !.pc = "select"])
  ELSE Step(t, [rec EXCEPT !.pc = "select"])

\* Lines 107-120, after the registry check: without a Supabase client the
\* call throws (wrapped by the catch of line 179), otherwise it awaits the
\* select. `first` tells the step that starts the call from a later one.
AfterProbe(t, rec, first) ==
  IF supabase
  THEN IF first THEN Begin(t, [rec EXCEPT !.pc = "select"])
       ELSE Step(t, [rec EXCEPT !.pc = "select"])
  ELSE Done(t, [rec EXCEPT !.cause = "NO_SUPABASE"], "error", NoHandle)

\* Lines 87-94: look the project up in the registry; probe a registered one.
\* args holds what the caller of getOrCreateProjectSandbox keeps across it.
EnsureBegin(t, p, args) ==
  LET rec == [args EXCEPT !.op = "ensure", !.proj = p,
                          !.sbx = activeSandboxes[p]]
  IN IF activeSandboxes[p] # NoHandle
     THEN Begin(t, [rec EXCEPT !.pc = "isRunning"])
     ELSE AfterProbe(t, rec, TRUE)

EnsureStart(t, p) ==
  /\ Free(t)
  /\ ensureInitialized(t, [IdleTask EXCEPT !.op = "ensure", !.proj = p],
                       EnsureBegin(t, p, IdleTask))
  /\ UNCHANGED <<setup, activeSandboxes, sandboxTimeouts, timers, deadline, db, remote, owner, expiry>>

\* Lines 94-105: the probe answers; alive goes on to extend the timeout, a
\* false answer or an exception falls through to the database.
EnsureIsRunning(t) ==
  /\ tasks[t].op = "ensure" /\ tasks[t].pc = "isRunning"
  /\ \E o \in ProbeOutcomes(tasks[t].sbx) :
       IF o = "true"
       THEN Step(t, [tasks[t] EXCEPT !.pc = "setTimeout", !.probe = "alive"])
       ELSE AfterProbe(t, [tasks[t] EXCEPT !.probe = "dead"], FALSE)
  /\ UNCHANGED <<setup, activeSandboxes, sandboxTimeouts, timers, deadline, db, remote, owner, expiry>>

\* EnsureSetTimeout without the `return activeSandbox` of line 100: the call
\* falls out of the if and goes on to the database.
EnsureSetTimeout_NoReturn(t) ==
  /\ tasks[t].op = "ensure" /\ tasks[t].pc = "setTimeout"
  /\ LET p == tasks[t].proj
         s == tasks[t].sbx
     IN \E ok \in (IF remote[s] = "live" THEN {TRUE, FALSE} ELSE {FALSE}) :
          IF ok
          THEN /\ resetSandboxTimeout(p)
               /\ expiry' = [expiry EXCEPT ![s] = now + SANDBOX_TIMEOUT]
               /\ AfterProbe(t, [tasks[t] EXCEPT !.extend = "ok"], FALSE)
          ELSE /\ UNCHANGED <<sandboxTimeouts, timers, deadline, expiry>>
               /\ AfterProbe(t, [tasks[t] EXCEPT !.extend = "failed"], FALSE)
  /\ UNCHANGED <<setup, activeSandboxes, db, remote, owner>>

\* Lines 97-104: the provider extended the timeout: rearm the local timer
\* and return the registered sandbox. setTimeout sits in the try of the
\* probe: when it throws, the catch of line 102 logs and the call falls
\* through to the database.
EnsureSetTimeout(t) ==
  /\ tasks[t].op = "ensure" /\ tasks[t].pc = "setTimeout"
  /\ LET p == tasks[t].proj
         s == tasks[t].sbx
     IN \E ok \in (IF remote[s] = "live" THEN {TRUE, FALSE} ELSE {FALSE}) :
          IF ok
          THEN /\ resetSandboxTimeout(p)
               /\ expiry' = [expiry EXCEPT ![s] = now + SANDBOX_TIMEOUT]
               /\ Done(t, [tasks[t] EXCEPT !.extend = "ok"], "ok", s)
          ELSE /\ UNCHANGED <<sandboxTimeouts, timers, deadline, expiry>>
               /\ AfterProbe(t, [tasks[t] EXCEPT !.extend = "failed"], FALSE)
  /\ UNCHANGED <<setup, activeSandboxes, db, remote, owner>>

\* EnsureSelect that throws the error of the select instead of logging it.
EnsureSelect_Throw(t) ==
  /\ tasks[t].op = "ensure" /\ tasks[t].pc = "select"
  /\ \E ok \in BOOLEAN :
       LET id == IF ok THEN db[tasks[t].proj] ELSE NoHandle
           rec == [tasks[t] EXCEPT !.hid = id, !.held = db[tasks[t].proj],
                                   !.read = IF ok THEN "ok" ELSE "failed"]
       IN IF ok
          THEN Step(t, [rec EXCEPT !.pc = IF id # NoHandle THEN "resume"
                                          ELSE "create"])
          ELSE Done(t, [rec EXCEPT !.cause = "store"], "error", NoHandle)
  /\ UNCHANGED <<setup, activeSandboxes, sandboxTimeouts, timers, deadline, db, remote,
                 owner, expiry>>

\* EnsureSelect with the test of line 127 never taken: the sandbox_id read is
\* ignored and a sandbox is always created.
EnsureSelect_NoResume(t) ==
  /\ tasks[t].op = "ensure" /\ tasks[t].pc = "select"
  /\ \E ok \in BOOLEAN :
       LET id == IF ok THEN db[tasks[t].proj] ELSE NoHandle
       IN Step(t, [tasks[t] EXCEPT !.hid = id, !.held = db[tasks[t].proj],
                                   !.read = IF ok THEN "ok" ELSE "failed",
                                   !.pc = "create"])
  /\ UNCHANGED <<setup, activeSandboxes, sandboxTimeouts, timers, deadline, db, remote, owner, expiry>>

\* Lines 116-127, 143-144: the select answers; a select error leaves project
\* null. A sandbox_id starts the resume, none starts the create.
EnsureSelect(t) ==
  /\ tasks[t].op = "ensure" /\ tasks[t].pc = "select"
  /\ \E ok \in BOOLEAN :
       LET id == IF ok THEN db[tasks[t].proj] ELSE NoHandle
       IN Step(t, [tasks[t] EXCEPT !.hid = id, !.held = db[tasks[t].proj],
                                   !.read = IF ok THEN "ok" ELSE "failed",
                                   !.pc = IF id # NoHandle THEN "resume"
                                          ELSE "create"])
  /\ UNCHANGED <<setup, activeSandboxes, sandboxTimeouts, timers, deadline, db, remote, owner, expiry>>

\* EnsureResume with the catch of line 137 rethrowing instead of logging.
EnsureResume_Rethrow(t) ==
  /\ tasks[t].op = "ensure" /\ tasks[t].pc = "resume"
  /\ LET p == tasks[t].proj
         h == tasks[t].hid
     IN \/ /\ remote[h] \in {"paused", "live"}
           /\ \E h2 \in Rotations(h) :
                /\ remote' = Rotate(h, h2, "live")
                /\ owner' = RotateOwner(h, h2)
                /\ expiry' = [expiry EXCEPT ![h2] = now + SANDBOX_TIMEOUT]
                /\ activeSandboxes' = [activeSandboxes EXCEPT ![p] = h2]
                /\ setSandboxTimeout(p)
                /\ Done(t, [tasks[t] EXCEPT !.sbx = h2], "ok", h2)
        \/ /\ Done(t, [tasks[t] EXCEPT !.resumeFailed = TRUE], "error", NoHandle)
           /\ UNCHANGED <<activeSandboxes, sandboxTimeouts, timers, deadline, remote, owner, expiry>>
  /\ UNCHANGED <<setup, db>>

\* Lines 130-139: Sandbox.resume answers. Success registers the sandbox, arms
\* the timer and returns; an exception is logged and the create starts.
EnsureResume(t) ==
  /\ tasks[t].op = "ensure" /\ tasks[t].pc = "resume"
  /\ LET p == tasks[t].proj
         h == tasks[t].hid
     IN \/ /\ remote[h] \in {"paused", "live"}
           /\ \E h2 \in Rotations(h) :
                /\ remote' = Rotate(h, h2, "live")
                /\ owner' = RotateOwner(h, h2)
                /\ expiry' = [expiry EXCEPT ![h2] = now + SANDBOX_TIMEOUT]
                /\ activeSandboxes' = [activeSandboxes EXCEPT ![p] = h2]
                /\ setSandboxTimeout(p)
                /\ Done(t, [tasks[t] EXCEPT !.sbx = h2], "ok", h2)
        \/ /\ Step(t, [tasks[t] EXCEPT !.resumeFailed = TRUE, !.pc = "create"])
           /\ UNCHANGED <<activeSandboxes, sandboxTimeouts, timers, deadline, remote, owner, expiry>>
  /\ UNCHANGED <<setup, db>>

\* EnsureCreate whose catch clears the sandbox_id of the row before it throws.
EnsureCreate_ClearsRow(t) ==
  /\ tasks[t].op = "ensure" /\ tasks[t].pc = "create"
  /\ LET p == tasks[t].proj
         rec == [tasks[t] EXCEPT !.nCreate = tasks[t].nCreate + 1]
     IN \/ /\ HasFresh
           /\ remote' = [remote EXCEPT ![Fresh] = "live"]
           /\ owner' = [owner EXCEPT ![Fresh] = p]
           /\ expiry' = [expiry EXCEPT ![Fresh] = now + SANDBOX_TIMEOUT]
           /\ Step(t, [rec EXCEPT !.sbx = Fresh, !.pc = "update", !.call = "ok"])
           /\ db' = db
        \/ /\ Done(t, [rec EXCEPT !.call = "failed", !.cause = "provider"],
                   "error", NoHandle)
           /\ db' = [db EXCEPT ![p] = NoHandle]
           /\ UNCHANGED <<remote, owner, expiry>>
  /\ UNCHANGED <<setup, activeSandboxes, sandboxTimeouts, timers, deadline>>

\* Lines 144-168: Sandbox.create answers. An exception is wrapped and thrown;
\* a new sandbox starts the update of the project row.
EnsureCreate(t) ==
  /\ tasks[t].op = "ensure" /\ tasks[t].pc = "create"
  /\ LET p == tasks[t].proj
         rec == [tasks[t] EXCEPT !.nCreate = tasks[t].nCreate + 1]
     IN \/ /\ HasFresh
           /\ remote' = [remote EXCEPT ![Fresh] = "live"]
           /\ owner' = [owner EXCEPT ![Fresh] = p]
           /\ expiry' = [expiry EXCEPT ![Fresh] = now + SANDBOX_TIMEOUT]
           /\ Step(t, [rec EXCEPT !.sbx = Fresh, !.pc = "update", !.call = "ok"])
        \/ /\ Done(t, [rec EXCEPT !.call = "failed", !.cause = "provider"],
                   "error", NoHandle)
           /\ UNCHANGED <<remote, owner, expiry>>
  /\ UNCHANGED <<setup, activeSandboxes, sandboxTimeouts, timers, deadline, db>>

\* EnsureUpdate without the update of lines 162-168: the created sandbox is
\* registered and returned, the row left as it was.
EnsureUpdate_NoWrite(t) ==
  /\ tasks[t].op = "ensure" /\ tasks[t].pc = "update"
  /\ LET p == tasks[t].proj
         s == tasks[t].sbx
     IN \E ok \in BOOLEAN :
          /\ db' = db
          /\ activeSandboxes' = [activeSandboxes EXCEPT ![p] = s]
          /\ setSandboxTimeout(p)
          /\ Done(t, [tasks[t] EXCEPT !.store = IF ok THEN "ok" ELSE "failed"],
                  "ok", s)
  /\ UNCHANGED <<setup, remote, owner, expiry>>

\* Lines 162-177: the update answers (an error is logged only); register the
\* sandbox, arm the timer, return it.
EnsureUpdate(t) ==
  /\ tasks[t].op = "ensure" /\ tasks[t].pc = "update"
  /\ LET p == tasks[t].proj
         s == tasks[t].sbx
     IN \E ok \in BOOLEAN :
          /\ db' = IF ok THEN [db EXCEPT ![p] = s] ELSE db
          /\ activeSandboxes' = [activeSandboxes EXCEPT ![p] = s]
          /\ setSandboxTimeout(p)
          /\ Done(t, [tasks[t] EXCEPT !.store = IF ok THEN "ok" ELSE "failed"],
                  "ok", s)
  /\ UNCHANGED <<setup, remote, owner, expiry>>

\* --------------------------------------------------------- pauseProject
\* Lines 190-196: pauseProject looks the project up and, for a registered
\* sandbox, awaits sandbox.pause(); without one it returns at once. viaTimer
\* marks the call made by the timer callback, whose rejection is only logged.
\* args holds what the caller of pauseProject keeps across it.
PauseCall(t, p, args) ==
  LET rec == [args EXCEPT !.op = "pause", !.proj = p,
                          !.sbx = activeSandboxes[p]]
  IN IF activeSandboxes[p] # NoHandle
     THEN Begin(t, [rec EXCEPT !.pc = "pause"])
     ELSE Done(t, rec, "ok", NoHandle)

PauseBegin(t, p, viaTimer) ==
  PauseCall(t, p, [IdleTask EXCEPT !.timer = viaTimer])

\* PauseStart clearing the row when no sandbox is registered, as killProject
\* does.
PauseStart_ClearsRow(t, p) ==
  /\ Free(t)
  /\ ensureInitialized(t, [IdleTask EXCEPT !.op = "pause", !.proj = p],
                       PauseBegin(t, p, FALSE))
  /\ db' = IF activeSandboxes[p] = NoHandle THEN [db EXCEPT ![p] = NoHandle]
           ELSE db
  /\ UNCHANGED <<setup, activeSandboxes, sandboxTimeouts, timers, deadline, remote, owner, expiry>>

PauseStart(t, p) ==
  /\ Free(t)
  /\ ensureInitialized(t, [IdleTask EXCEPT !.op = "pause", !.proj = p],
                       PauseBegin(t, p, FALSE))
  /\ UNCHANGED <<setup, activeSandboxes, sandboxTimeouts, timers, deadline, db, remote, owner, expiry>>

\* Unregister that deletes the registry entry and leaves the timer alone.
Unregister_KeepTimer(p) ==
  /\ activeSandboxes' = [activeSandboxes EXCEPT ![p] = NoHandle]
  /\ UNCHANGED <<sandboxTimeouts, timers, deadline>>

\* Lines 210-211: drop the registry entry and the timer of the project.
Unregister(p) ==
  /\ activeSandboxes' = [activeSandboxes EXCEPT ![p] = NoHandle]
  /\ clearSandboxTimeout(p)

\* PausePause whose catch removes the entry and the timer before it throws.
PausePause_UnregisterOnFail(t) ==
  /\ tasks[t].op = "pause" /\ tasks[t].pc = "pause"
  /\ LET p == tasks[t].proj
         s == tasks[t].sbx
     IN \/ /\ remote[s] = "live"
           /\ \E h2 \in Rotations(s) :
                /\ remote' = Rotate(s, h2, "paused")
                /\ owner' = RotateOwner(s, h2)
                /\ expiry' = expiry
                /\ LET rec == [tasks[t] EXCEPT !.call = "ok", !.hid = h2]
                   IN IF supabase
                      THEN /\ Step(t, [rec EXCEPT !.pc = "update"])
                           /\ UNCHANGED <<activeSandboxes, sandboxTimeouts, timers, deadline>>
                      ELSE /\ Unregister(p)
                           /\ Done(t, rec, "ok", NoHandle)
        \/ /\ Done(t, [tasks[t] EXCEPT !.call = "failed", !.cause = "provider"],
                   "error", NoHandle)
           /\ Unregister(tasks[t].proj)
           /\ UNCHANGED <<remote, owner, expiry>>
  /\ UNCHANGED <<setup, db>>

\* Lines 196-219: sandbox.pause() answers with the id to resume from (hid), or
\* throws, which is wrapped and thrown. With a Supabase client the update of
\* the row is awaited next; without one the entry and the timer go at once.
PausePause(t) ==
  /\ tasks[t].op = "pause" /\ tasks[t].pc = "pause"
  /\ LET p == tasks[t].proj
         s == tasks[t].sbx
     IN \/ /\ remote[s] = "live"
           /\ \E h2 \in Rotations(s) :
                /\ remote' = Rotate(s, h2, "paused")
                /\ owner' = RotateOwner(s, h2)
                /\ expiry' = expiry
                /\ LET rec == [tasks[t] EXCEPT !.call = "ok", !.hid = h2]
                   IN IF supabase
                      THEN /\ Step(t, [rec EXCEPT !.pc = "update"])
                           /\ UNCHANGED <<activeSandboxes, sandboxTimeouts, timers, deadline>>
                      ELSE /\ Unregister(p)
                           /\ Done(t, rec, "ok", NoHandle)
        \/ /\ Done(t, [tasks[t] EXCEPT !.call = "failed", !.cause = "provider"],
                   "error", NoHandle)
           /\ UNCHANGED <<activeSandboxes, sandboxTimeouts, timers, deadline, remote, owner, expiry>>
  /\ UNCHANGED <<setup, db>>

\* PauseUpdate writing the id of the sandbox object instead of the id that
\* pause() returned.
PauseUpdate_OldId(t) ==
  /\ tasks[t].op = "pause" /\ tasks[t].pc = "update"
  /\ LET p == tasks[t].proj
     IN \E ok \in BOOLEAN :
          /\ db' = IF ok THEN [db EXCEPT ![p] = tasks[t].sbx] ELSE db
          /\ Unregister(p)
          /\ Done(t, [tasks[t] EXCEPT !.store = IF ok THEN "ok" ELSE "failed"],
                  "ok", NoHandle)
  /\ UNCHANGED <<setup, remote, owner, expiry>>

\* Lines 200-211: the update of sandbox_id answers (an error is logged only);
\* the entry and the timer go.
PauseUpdate(t) ==
  /\ tasks[t].op = "pause" /\ tasks[t].pc = "update"
  /\ LET p == tasks[t].proj
     IN \E ok \in BOOLEAN :
          /\ db' = IF ok THEN [db EXCEPT ![p] = tasks[t].hid] ELSE db
          /\ Unregister(p)
          /\ Done(t, [tasks[t] EXCEPT !.store = IF ok THEN "ok" ELSE "failed"],
                  "ok", NoHandle)
  /\ UNCHANGED <<setup, remote, owner, expiry>>

\* ---------------------------------------------------------- killProject
\* Provider state after kill() of h succeeded.
Killed(h) ==
  IF remote[h] \in {"live", "paused"} THEN [remote EXCEPT ![h] = "gone"]
  ELSE remote

\* KillStart that returns at once for a project that is not registered,
\* leaving its row alone.
KillStart_RegisteredOnly(t, p) ==
  /\ Free(t)
  /\ LET rec == [IdleTask EXCEPT !.op = "kill", !.proj = p,
                                 !.sbx = activeSandboxes[p]]
     IN ensureInitialized(t, rec,
          IF activeSandboxes[p] # NoHandle
          THEN Begin(t, [rec EXCEPT !.pc = "kill"])
          ELSE Done(t, rec, "ok", NoHandle))
  /\ UNCHANGED <<setup, activeSandboxes, sandboxTimeouts, timers, deadline, db, remote,
                 owner, expiry>>

\* Lines 224-238: killProject looks the project up and awaits sandbox.kill()
\* for a registered sandbox; otherwise it goes on to clear the row.
KillStart(t, p) ==
  /\ Free(t)
  /\ LET rec == [IdleTask EXCEPT !.op = "kill", !.proj = p,
                                 !.sbx = activeSandboxes[p]]
     IN ensureInitialized(t, rec,
          IF activeSandboxes[p] # NoHandle
          THEN Begin(t, [rec EXCEPT !.pc = "kill"])
          ELSE IF supabase THEN Begin(t, [rec EXCEPT !.pc = "update"])
               ELSE Done(t, rec, "ok", NoHandle))
  /\ UNCHANGED <<setup, activeSandboxes, sandboxTimeouts, timers, deadline, db, remote, owner, expiry>>

\* KillKill with the catch of line 232 rethrowing instead of logging.
KillKill_Rethrow(t) ==
  /\ tasks[t].op = "kill" /\ tasks[t].pc = "kill"
  /\ LET p == tasks[t].proj
     IN \E ok \in BOOLEAN :
          /\ IF ok THEN /\ remote' = Killed(tasks[t].sbx)
                        /\ Unregister(p)
             ELSE UNCHANGED <<remote, activeSandboxes, sandboxTimeouts, timers, deadline>>
          /\ LET rec == [tasks[t] EXCEPT !.call = IF ok THEN "ok" ELSE "failed"]
             IN IF ok /\ supabase THEN Step(t, [rec EXCEPT !.pc = "update"])
                ELSE Done(t, rec, IF ok THEN "ok" ELSE "error", NoHandle)
  /\ UNCHANGED <<setup, db, owner, expiry>>

\* Lines 229-238: sandbox.kill() answers. Only after a successful kill are the
\* entry and the timer dropped; an exception is logged and nothing else.
KillKill(t) ==
  /\ tasks[t].op = "kill" /\ tasks[t].pc = "kill"
  /\ LET p == tasks[t].proj
     IN \E ok \in BOOLEAN :
          /\ IF ok THEN /\ remote' = Killed(tasks[t].sbx)
                        /\ Unregister(p)
             ELSE UNCHANGED <<remote, activeSandboxes, sandboxTimeouts, timers, deadline>>
          /\ LET rec == [tasks[t] EXCEPT !.call = IF ok THEN "ok" ELSE "failed"]
             IN IF supabase THEN Step(t, [rec EXCEPT !.pc = "update"])
                ELSE Done(t, rec, "ok", NoHandle)
  /\ UNCHANGED <<setup, db, owner, expiry>>

\* Lines 239-247: the update clearing sandbox_id answers (an error is logged).
KillUpdate(t) ==
  /\ tasks[t].op = "kill" /\ tasks[t].pc = "update"
  /\ \E ok \in BOOLEAN :
       /\ db' = IF ok THEN [db EXCEPT ![tasks[t].proj] = NoHandle] ELSE db
       /\ Done(t, [tasks[t] EXCEPT !.store = IF ok THEN "ok" ELSE "failed"],
               "ok", NoHandle)
  /\ UNCHANGED <<setup, activeSandboxes, sandboxTimeouts, timers, deadline, remote, owner, expiry>>

\* ------------------------------------------------------ killAllSandboxes
\* BatchNext of a batch that awaits the kills one by one and gives up at the
\* first failure.
BatchNext_Abort(t, rec) ==
  IF \/ \A p \in Projects : rec.sub[p].pc \in {"skip", "done"}
     \/ \E p \in Projects : rec.sub[p].call = "failed"
  THEN Done(t, rec, "ok", NoHandle)
  ELSE Step(t, rec)

\* Promise.all resolves once every killProject of the batch has returned.
BatchNext(t, rec) ==
  IF \A p \in Projects : rec.sub[p].pc \in {"skip", "done"}
  THEN Done(t, rec, "ok", NoHandle)
  ELSE Step(t, rec)

\* Lines 251-263: one killProject per registered project, each run up to its
\* await of sandbox.kill().
KillAllStart(t) ==
  /\ Free(t)
  /\ LET rec == [IdleTask EXCEPT
                   !.op = "killAll",
                   !.pc = "batch",
                   !.sub = [p \in Projects |->
                              IF activeSandboxes[p] # NoHandle
                              THEN [pc |-> "kill", sbx |-> activeSandboxes[p],
                                    n |-> 0, call |-> "none"]
                              ELSE NoSub]]
     IN ensureInitialized(t, [IdleTask EXCEPT !.op = rec.op],
          IF \E p \in Projects : activeSandboxes[p] # NoHandle
          THEN Begin(t, rec)
          ELSE Done(t, rec, "ok", NoHandle))
  /\ UNCHANGED <<setup, activeSandboxes, sandboxTimeouts, timers, deadline, db, remote, owner, expiry>>

\* killProject of project p inside the batch: sandbox.kill() answers.
KillAllKill(t, p) ==
  /\ tasks[t].op = "killAll" /\ tasks[t].sub[p].pc = "kill"
  /\ \E ok \in BOOLEAN :
       /\ IF ok THEN /\ remote' = Killed(tasks[t].sub[p].sbx)
                     /\ Unregister(p)
          ELSE UNCHANGED <<remote, activeSandboxes, sandboxTimeouts, timers, deadline>>
       /\ BatchNext(t, [tasks[t] EXCEPT
                          !.sub[p].call = IF ok THEN "ok" ELSE "failed",
                          !.sub[p].n = tasks[t].sub[p].n + 1,
                          !.sub[p].pc = IF supabase THEN "update" ELSE "done"])
  /\ UNCHANGED <<setup, db, owner, expiry>>

\* killProject of project p inside the batch: the update answers.
KillAllUpdate(t, p) ==
  /\ tasks[t].op = "killAll" /\ tasks[t].sub[p].pc = "update"
  /\ \E ok \in BOOLEAN :
       db' = IF ok THEN [db EXCEPT ![p] = NoHandle] ELSE db
  /\ BatchNext(t, [tasks[t] EXCEPT !.sub[p].pc = "done"])
  /\ UNCHANGED <<setup, activeSandboxes, sandboxTimeouts, timers, deadline, remote, owner, expiry>>

\* ---------------------------------------------- cleanupInactiveSandboxes
\* Lines 274-291: one check per registered project, each run up to its await
\* of sandbox.isRunning().
CleanupStart(t) ==
  /\ Free(t)
  /\ LET rec == [IdleTask EXCEPT
                   !.op = "cleanup",
                   !.pc = "batch",
                   !.sub = [p \in Projects |->
                              IF activeSandboxes[p] # NoHandle
                              THEN [pc |-> "probe", sbx |-> activeSandboxes[p],
                                    n |-> 0, call |-> "none"]
                              ELSE NoSub]]
     IN ensureInitialized(t, [IdleTask EXCEPT !.op = rec.op],
          IF \E p \in Projects : activeSandboxes[p] # NoHandle
          THEN Begin(t, rec)
          ELSE Done(t, rec, "ok", NoHandle))
  /\ UNCHANGED <<setup, activeSandboxes, sandboxTimeouts, timers, deadline, db, remote,
                 owner, expiry>>

\* CleanupIsRunning whose catch only logs: the entry goes on a false answer
\* alone.
CleanupIsRunning_KeepOnThrow(t, p) ==
  /\ tasks[t].op = "cleanup" /\ tasks[t].sub[p].pc = "probe"
  /\ \E ans \in ProbeOutcomes(tasks[t].sub[p].sbx) :
       /\ IF ans # "false"
          THEN UNCHANGED <<activeSandboxes, sandboxTimeouts, timers, deadline>>
          ELSE Unregister(p)
       /\ BatchNext(t, [tasks[t] EXCEPT !.sub[p].call = ans,
                                        !.sub[p].pc = "done"])
  /\ UNCHANGED <<setup, db, remote, owner, expiry>>

\* Lines 276-288: isRunning() of project p's sandbox answers; on false and on
\* a throw the entry of p is deleted and its timer cleared.
CleanupIsRunning(t, p) ==
  /\ tasks[t].op = "cleanup" /\ tasks[t].sub[p].pc = "probe"
  /\ \E ans \in ProbeOutcomes(tasks[t].sub[p].sbx) :
       /\ IF ans = "true"
          THEN UNCHANGED <<activeSandboxes, sandboxTimeouts, timers, deadline>>
          ELSE Unregister(p)
       /\ BatchNext(t, [tasks[t] EXCEPT !.sub[p].call = ans,
                                        !.sub[p].pc = "done"])
  /\ UNCHANGED <<setup, db, remote, owner, expiry>>

\* ---------------------------------------------------------------- timer
\* TimerFire with a callback that calls killProject instead of pauseProject.
TimerFire_Kill(t, p) ==
  /\ Free(t)
  /\ sandboxTimeouts[p] = "armed"
  /\ timers[p] > 0
  /\ sandboxTimeouts' = [sandboxTimeouts EXCEPT ![p] = "fired"]
  /\ timers' = [timers EXCEPT ![p] = timers[p] - 1]
  /\ deadline' = deadline
  /\ LET rec == [IdleTask EXCEPT !.op = "kill", !.proj = p, !.timer = TRUE,
                                 !.sbx = activeSandboxes[p]]
     IN ensureInitialized(t, rec,
          IF activeSandboxes[p] # NoHandle
          THEN Begin(t, [rec EXCEPT !.pc = "kill"])
          ELSE IF supabase THEN Begin(t, [rec EXCEPT !.pc = "update"])
               ELSE Done(t, rec, "ok", NoHandle))
  /\ UNCHANGED <<setup, activeSandboxes, db, remote, owner, expiry>>

\* Lines 300-305: an armed timer fires once; its callback calls pauseProject
\* and logs a rejection.
TimerFire(t, p) ==
  /\ Free(t)
  /\ sandboxTimeouts[p] = "armed"
  /\ timers[p] > 0
  /\ sandboxTimeouts' = [sandboxTimeouts EXCEPT ![p] = "fired"]
  /\ timers' = [timers EXCEPT ![p] = timers[p] - 1]
  /\ deadline' = deadline
  /\ ensureInitialized(t, [IdleTask EXCEPT !.op = "pause", !.proj = p,
                                           !.timer = TRUE],
                       PauseBegin(t, p, TRUE))
  /\ UNCHANGED <<setup, activeSandboxes, db, remote, owner, expiry>>

\* ------------------------------------------------------ processFragment
\* The interpreter template and one of the web templates.
Templates == {"code-interpreter-v1", "nextjs-developer"}

\* The catch of line 391: a step of processFragment threw.
FragFail(t, rec, step, cause) ==
  Return(t, [rec EXCEPT !.failed = step, !.cause = cause], "error", NoHandle)

\* FragResult tracking every result, with or without a url.
FragResult_TracksAll(t, rec) ==
  \E a \in {"disabled", "ok", "throw"} :
    IF a = "throw"
    THEN FragFail(t, [rec EXCEPT !.sink = a], "track", "analytics")
    ELSE Return(t, [rec EXCEPT !.sink = a,
                               !.emitted = IF a = "ok" THEN 1 ELSE 0],
                "ok", rec.sbx)

\* Lines 381-389: a result with a url (the web result) is tracked and the
\* result is returned. trackSandboxCreated -> track (analytics.service): a
\* disabled service returns at once, else posthog.capture is called, and an
\* exception of it is caught by line 391.
FragResult(t, rec) ==
  IF rec.variant = "web"
  THEN \E a \in {"disabled", "ok", "throw"} :
         IF a = "throw"
         THEN FragFail(t, [rec EXCEPT !.sink = a], "track", "analytics")
         ELSE Return(t, [rec EXCEPT !.sink = a,
                                    !.emitted = IF a = "ok" THEN 1 ELSE 0],
                     "ok", rec.sbx)
  ELSE Return(t, rec, "ok", rec.sbx)

\* FragExecute without the test of the template: the code is always run.
FragExecute_RunsAll(t, rec) ==
  Step(t, [rec EXCEPT !.pc = "runCode", !.steps = Append(rec.steps, "runCode")])

\* Lines 359-379, the last_activity update done. The interpreter template
\* awaits runCode; any other template computes the URL with getHost and
\* builds the web result.
FragExecute(t, rec) ==
  IF rec.template = "code-interpreter-v1"
  THEN Step(t, [rec EXCEPT !.pc = "runCode",
                           !.steps = Append(rec.steps, "runCode")])
  ELSE FragResult(t, [rec EXCEPT !.steps = Append(rec.steps, "getHost"),
                                 !.fin = rec.fin + 1, !.variant = "web"])

\* Lines 356-357, 430-432: updateProjectActivity awaits the update of
\* last_activity when there is a client (the authenticated one made from the
\* access token, or deps.supabase) and returns at once without one.
FragAfterWrite(t, rec) ==
  IF rec.token \/ supabase
  THEN Step(t, [rec EXCEPT !.pc = "touch", !.steps = Append(rec.steps, "touch")])
  ELSE FragExecute(t, rec)

\* Lines 328-342: processFragment calls getOrCreateProjectSandbox.
ProcessFragmentBegin(t, p, args) ==
  EnsureBegin(t, p, [args EXCEPT !.outer = "fragment", !.steps = <<"ensure">>])

ProcessFragmentStart(t, p) ==
  /\ Free(t)
  /\ \E tpl \in Templates, d \in BOOLEAN, tok \in BOOLEAN :
       LET args == [IdleTask EXCEPT !.hasFragment = TRUE, !.template = tpl,
                                    !.deps = d, !.token = tok]
       IN ensureInitialized(t, [args EXCEPT !.op = "fragment", !.proj = p],
                            ProcessFragmentBegin(t, p, args))
  /\ UNCHANGED <<setup, activeSandboxes, sandboxTimeouts, timers, deadline, db, remote, owner, expiry>>

\* Lines 346-353: sandbox.commands.run answers; then the file is written.
FragInstall(t) ==
  /\ tasks[t].op = "fragment" /\ tasks[t].pc = "install"
  /\ \/ /\ remote[tasks[t].sbx] = "live"
        /\ Step(t, [tasks[t] EXCEPT !.pc = "write",
                                    !.fin = tasks[t].fin + 1,
                                    !.steps = Append(tasks[t].steps, "write")])
     \/ FragFail(t, tasks[t], "install", "provider")
  /\ UNCHANGED <<setup, activeSandboxes, sandboxTimeouts, timers, deadline, db, remote, owner, expiry>>

\* FragWrite with the exception of sandbox.files.write caught and logged.
FragWrite_Swallow(t) ==
  /\ tasks[t].op = "fragment" /\ tasks[t].pc = "write"
  /\ \/ /\ remote[tasks[t].sbx] = "live"
        /\ FragAfterWrite(t, [tasks[t] EXCEPT !.fin = tasks[t].fin + 1])
     \/ FragAfterWrite(t, [tasks[t] EXCEPT !.failed = "write"])
  /\ UNCHANGED <<setup, activeSandboxes, sandboxTimeouts, timers, deadline, db, remote, owner, expiry>>

\* Lines 353-357: sandbox.files.write answers; then the activity is updated.
FragWrite(t) ==
  /\ tasks[t].op = "fragment" /\ tasks[t].pc = "write"
  /\ \/ /\ remote[tasks[t].sbx] = "live"
        /\ FragAfterWrite(t, [tasks[t] EXCEPT !.fin = tasks[t].fin + 1])
     \/ FragFail(t, tasks[t], "write", "provider")
  /\ UNCHANGED <<setup, activeSandboxes, sandboxTimeouts, timers, deadline, db, remote, owner, expiry>>

\* FragTouch with an update error thrown instead of logged.
FragTouch_Throw(t) ==
  /\ tasks[t].op = "fragment" /\ tasks[t].pc = "touch"
  /\ \E ok \in BOOLEAN :
       LET rec == [tasks[t] EXCEPT !.touch = IF ok THEN "ok" ELSE "failed",
                                   !.fin = tasks[t].fin + 1]
       IN IF ok THEN FragExecute(t, rec)
          ELSE FragFail(t, rec, "touch", "store")
  /\ UNCHANGED <<setup, activeSandboxes, sandboxTimeouts, timers, deadline, db, remote, owner, expiry>>

\* Lines 433-441, 359-389: the update of last_activity answers (an error is
\* logged only); then the code is run or the URL returned.
FragTouch(t) ==
  /\ tasks[t].op = "fragment" /\ tasks[t].pc = "touch"
  /\ \E ok \in BOOLEAN :
       FragExecute(t, [tasks[t] EXCEPT !.touch = IF ok THEN "ok" ELSE "failed",
                                       !.fin = tasks[t].fin + 1])
  /\ UNCHANGED <<setup, activeSandboxes, sandboxTimeouts, timers, deadline, db, remote, owner, expiry>>

\* FragRunCode throwing the error that runCode reports for the submitted
\* code.
FragRunCode_FaultThrows(t) ==
  /\ tasks[t].op = "fragment" /\ tasks[t].pc = "runCode"
  /\ \/ /\ remote[tasks[t].sbx] = "live"
        /\ \E fault \in BOOLEAN :
             LET rec == [tasks[t] EXCEPT !.fin = tasks[t].fin + 1,
                                         !.runtimeError = fault,
                                         !.variant = "interpreter"]
             IN IF fault THEN FragFail(t, rec, "runCode", "code")
                ELSE FragResult(t, rec)
     \/ FragFail(t, tasks[t], "runCode", "provider")
  /\ UNCHANGED <<setup, activeSandboxes, sandboxTimeouts, timers, deadline, db, remote, owner, expiry>>

\* Lines 363-389: runCode answers with the logs, the results and the error of
\* the submitted code, if it faulted, and the interpreter result is built
\* from them. An exception of runCode is caught by line 391.
FragRunCode(t) ==
  /\ tasks[t].op = "fragment" /\ tasks[t].pc = "runCode"
  /\ \/ /\ remote[tasks[t].sbx] = "live"
        /\ \E fault \in BOOLEAN :
             FragResult(t, [tasks[t] EXCEPT !.fin = tasks[t].fin + 1,
                                            !.runtimeError = fault,
                                            !.variant = "interpreter"])
     \/ FragFail(t, tasks[t], "runCode", "provider")
  /\ UNCHANGED <<setup, activeSandboxes, sandboxTimeouts, timers, deadline, db, remote, owner, expiry>>

\* ----------------------------------------------- executeSandboxOperation
\* ExecuteBegin calling pauseProject for either operation.
ExecuteBegin_ResumePauses(t, p, args) ==
  PauseCall(t, p, [args EXCEPT !.outer = "operation"])

\* Lines 406-418: "pause" calls pauseProject; "resume" returns success.
ExecuteBegin(t, p, args) ==
  IF args.oper = "pause"
  THEN PauseCall(t, p, [args EXCEPT !.outer = "operation"])
  ELSE Return(t, [args EXCEPT !.op = "operation", !.outer = "operation",
                              !.proj = p],
              "ok", NoHandle)

ExecuteStart(t, p) ==
  /\ Free(t)
  /\ \E o \in {"pause", "resume"} :
       LET args == [IdleTask EXCEPT !.oper = o]
       IN ensureInitialized(t, [args EXCEPT !.op = "operation", !.proj = p],
                            ExecuteBegin(t, p, args))
  /\ UNCHANGED <<setup, activeSandboxes, sandboxTimeouts, timers, deadline, db, remote, owner, expiry>>

\* ------------------------------------------------------------- route.ts
\* POST looking at the fragment before the operation.
POST_FragmentFirst(t, p) ==
  /\ Free(t)
  /\ \E o \in {"execute", "pause", "resume"}, frag \in BOOLEAN :
       LET args == [IdleTask EXCEPT !.route = TRUE, !.oper = o,
                                    !.hasFragment = frag]
       IN IF frag
          THEN \E tpl \in Templates, d \in BOOLEAN, tok \in BOOLEAN :
                 LET a == [args EXCEPT !.template = tpl, !.deps = d,
                                       !.token = tok]
                 IN ensureInitialized(t, [a EXCEPT !.op = "fragment",
                                                   !.proj = p],
                                      ProcessFragmentBegin(t, p, a))
          ELSE IF o \in {"pause", "resume"}
               THEN ensureInitialized(t, [args EXCEPT !.op = "operation",
                                                      !.proj = p],
                                      ExecuteBegin(t, p, args))
               ELSE Return(t, [args EXCEPT !.op = "post", !.proj = p],
                           "rejected", NoHandle)
  /\ UNCHANGED <<setup, activeSandboxes, sandboxTimeouts, timers, deadline, db, remote, owner, expiry>>

\* POST, lines 28-70: operation "pause" or "resume" goes to
\* executeSandboxOperation; otherwise a request without a fragment is
\* answered with status 400, and one with a fragment goes to processFragment
\* ("execute" stands for an absent operation too).
POST(t, p) ==
  /\ Free(t)
  /\ \E o \in {"execute", "pause", "resume"}, frag \in BOOLEAN :
       LET args == [IdleTask EXCEPT !.route = TRUE, !.oper = o,
                                    !.hasFragment = frag]
       IN IF o \in {"pause", "resume"}
          THEN ensureInitialized(t, [args EXCEPT !.op = "operation",
                                                 !.proj = p],
                                 ExecuteBegin(t, p, args))
          ELSE IF ~frag
               THEN Return(t, [args EXCEPT !.op = "post", !.proj = p],
                           "rejected", NoHandle)
               ELSE \E tpl \in Templates, d \in BOOLEAN, tok \in BOOLEAN :
                      LET a == [args EXCEPT !.template = tpl, !.deps = d,
                                            !.token = tok]
                      IN ensureInitialized(t, [a EXCEPT !.op = "fragment",
                                                        !.proj = p],
                                           ProcessFragmentBegin(t, p, a))
  /\ UNCHANGED <<setup, activeSandboxes, sandboxTimeouts, timers, deadline, db, remote, owner, expiry>>

\* ---------------------------------------------------------- environment
\* The provider's own timeout (or a crash) ends a running sandbox.
Expire(h) ==
  /\ remote[h] = "live"
  /\ remote' = [remote EXCEPT ![h] = "gone"]
  /\ prev' = IF prev.ret = h THEN NoPrev ELSE prev
  /\ last' = IdleTask
  /\ UNCHANGED <<setup, activeSandboxes, sandboxTimeouts, timers, deadline, db, owner, expiry, tasks>>

\* Time passes, up to MaxTime.
Tick ==
  /\ now < MaxTime
  /\ now' = now + 1
  /\ last' = IdleTask
  /\ UNCHANGED <<supabase, sandboxServiceInstance, isInitialized, expiry,
                 deadline, activeSandboxes, sandboxTimeouts, timers, db, remote,
                 owner, tasks, prev>>

\* ------------------------------------------------------- specifications
\* A caller invokes an operation on a project of P, or a timer fires.
Starts(P) ==
  \/ \E t \in TaskIds, p \in P : EnsureStart(t, p)
  \/ \E t \in TaskIds, p \in P : PauseStart(t, p)
  \/ \E t \in TaskIds, p \in P : KillStart(t, p)
  \/ \E t \in TaskIds : KillAllStart(t)
  \/ \E t \in TaskIds : CleanupStart(t)
  \/ \E t \in TaskIds, p \in P : TimerFire(t, p)

\* A pending call is answered and the operation goes on.
Steps ==
  \/ \E t \in TaskIds : EnsureIsRunning(t)
  \/ \E t \in TaskIds : EnsureSetTimeout(t)
  \/ \E t \in TaskIds : EnsureSelect(t)
  \/ \E t \in TaskIds : EnsureResume(t)
  \/ \E t \in TaskIds : EnsureCreate(t)
  \/ \E t \in TaskIds : EnsureUpdate(t)
  \/ \E t \in TaskIds : PausePause(t)
  \/ \E t \in TaskIds : PauseUpdate(t)
  \/ \E t \in TaskIds : KillKill(t)
  \/ \E t \in TaskIds : KillUpdate(t)
  \/ \E t \in TaskIds, p \in Projects : KillAllKill(t, p)
  \/ \E t \in TaskIds, p \in Projects : KillAllUpdate(t, p)
  \/ \E t \in TaskIds, p \in Projects : CleanupIsRunning(t, p)

Env == \E h \in Handles : Expire(h)

\* Operations overlap at their awaits, up to MaxTasks at a time. Operations
\* on different projects share no registry entry, timer, row or sandbox, so
\* the overlapping calls all address one project.
OverlapProjects == {"p1"}

Next == Starts(OverlapProjects) \/ Steps \/ Env

Spec == Init /\ [][Next]_vars

\* A single caller: an operation starts (or a timer fires) only when no
\* operation is in flight; the calls address every project.
NextSeq == (NoneActive /\ Starts(Projects)) \/ Steps \/ Env

SpecSeq == Init /\ [][NextSeq]_vars

\* The single caller with the scheduling Node guarantees: a pending provider
\* or database call is answered and its continuation runs, and an armed
\* timer that is not cleared fires.
SpecLive ==
  /\ Init
  /\ [][NextSeq]_vars
  /\ WF_vars(Steps)
  /\ \A p \in Projects : WF_vars(NoneActive /\ \E t \in TaskIds : TimerFire(t, p))

\* The callers of the fragment layer: the POST handler, and processFragment
\* and executeSandboxOperation called directly (hook, legacy SandboxManager).
CallerStarts(P) ==
  \/ \E t \in TaskIds, p \in P : ProcessFragmentStart(t, p)
  \/ \E t \in TaskIds, p \in P : ExecuteStart(t, p)
  \/ \E t \in TaskIds, p \in P : POST(t, p)

FragSteps ==
  \/ \E t \in TaskIds : FragInstall(t)
  \/ \E t \in TaskIds : FragWrite(t)
  \/ \E t \in TaskIds : FragTouch(t)
  \/ \E t \in TaskIds : FragRunCode(t)

\* A single caller of every operation of the service and of the POST handler,
\* on one project.
NextFrag ==
  \/ NoneActive /\ (Starts(OverlapProjects) \/ CallerStarts(OverlapProjects))
  \/ Steps
  \/ FragSteps
  \/ Env

SpecFrag == Init /\ [][NextFrag]_vars

\* A fragment request against an idle timeout: one getOrCreateProjectSandbox
\* call at a time on a project, and the callback of the project's timer,
\* which fires whenever the timer is armed, the call in flight or not.
RaceStarts(P) ==
  \/ \E t \in TaskIds, p \in P :
       /\ \A u \in TaskIds : tasks[u].op # "ensure"
       /\ EnsureStart(t, p)
  \/ \E t \in TaskIds, p \in P : TimerFire(t, p)

RaceSteps ==
  \/ \E t \in TaskIds : EnsureIsRunning(t)
  \/ \E t \in TaskIds : EnsureSetTimeout(t)
  \/ \E t \in TaskIds : EnsureSelect(t)
  \/ \E t \in TaskIds : EnsureResume(t)
  \/ \E t \in TaskIds : EnsureCreate(t)
  \/ \E t \in TaskIds : EnsureUpdate(t)
  \/ \E t \in TaskIds : PausePause(t)
  \/ \E t \in TaskIds : PauseUpdate(t)

\* The sandboxes do not expire on their own here: what the provider holds
\* changes by the two operations only.
NextRace == RaceStarts(OverlapProjects) \/ RaceSteps

SpecRace == Init /\ [][NextRace]_vars

\* The single caller of getOrCreateProjectSandbox with the time: the
\* callback of a timer runs when its delay has passed (line 305), and the
\* provider ends a sandbox when its timeout has run out.
ClockStarts(P) ==
  \/ \E t \in TaskIds, p \in P : NoneActive /\ EnsureStart(t, p)
  \/ \E t \in TaskIds, p \in P : now >= deadline[p] /\ TimerFire(t, p)

ClockEnv ==
  \/ Tick
  \/ \E h \in Handles : now >= expiry[h] /\ Expire(h)

NextClock == ClockStarts(OverlapProjects) \/ RaceSteps \/ ClockEnv

SpecClock == Init /\ [][NextClock]_vars

\* ------------------------------------------------- the service's life
\* The module before the first call of the accessor: no instance yet.
InitLife ==
  /\ supabase \in BOOLEAN
  /\ sandboxServiceInstance = FALSE /\ isInitialized = FALSE
  /\ now = 0
  /\ expiry = [h \in Handles |-> 0] /\ deadline = [p \in Projects |-> 0]
  /\ activeSandboxes = [p \in Projects |-> NoHandle]
  /\ sandboxTimeouts = [p \in Projects |-> "none"]
  /\ timers = [p \in Projects |-> 0]
  /\ db = [p \in Projects |-> NoHandle]
  /\ remote = [h \in Handles |-> "unused"]
  /\ owner = [h \in Handles |-> "none"]
  /\ tasks = [t \in TaskIds |-> IdleTask]
  /\ last = IdleTask
  /\ prev = NoPrev

\* getSandboxService, lines 453-464 (and route.ts lines 11-22): without an
\* instance one is constructed and assigned, and initialize() is awaited
\* (base.service.ts lines 31-36, up to the await inside onInitialize); with
\* an instance the accessor returns it at once.
getSandboxService(t) ==
  /\ Free(t)
  /\ IF ~sandboxServiceInstance
     THEN Begin(t, [IdleTask EXCEPT !.op = "accessor", !.pc = "onInitialize"])
     ELSE Return(t, [IdleTask EXCEPT !.op = "accessor"], "ok", NoHandle)
  /\ sandboxServiceInstance' = TRUE
  /\ UNCHANGED <<supabase, isInitialized, now, expiry, deadline, activeSandboxes,
                 sandboxTimeouts, timers, db, remote, owner>>

\* base.service.ts lines 36-38 and sandbox.service.ts lines 62-66: the await
\* of onInitialize resolves, the service is initialized and the accessor
\* returns the instance.
initialize(t) ==
  /\ tasks[t].op = "accessor" /\ tasks[t].pc = "onInitialize"
  /\ isInitialized' = TRUE
  /\ Return(t, tasks[t], "ok", NoHandle)
  /\ UNCHANGED <<supabase, sandboxServiceInstance, now, expiry, deadline,
                 activeSandboxes, sandboxTimeouts, timers, db, remote, owner>>

\* base.service.ts lines 41-48 with onCleanup, lines 68-79, of an
\* initialized service (one that is not returns at line 42): the
\* killAllSandboxes is started and not awaited, one killProject per
\* registered project run up to its await of sandbox.kill(); every timeout
\* is cleared and the map emptied; the service is no longer initialized.
cleanup(t) ==
  /\ Free(t)
  /\ sandboxServiceInstance /\ isInitialized
  /\ LET rec == [IdleTask EXCEPT
                   !.op = "killAll",
                   !.pc = "batch",
                   !.sub = [p \in Projects |->
                              IF activeSandboxes[p] # NoHandle
                              THEN [pc |-> "kill", sbx |-> activeSandboxes[p],
                                    n |-> 0, call |-> "none"]
                              ELSE NoSub]]
     IN IF \E p \in Projects : activeSandboxes[p] # NoHandle
        THEN Begin(t, rec)
        ELSE Return(t, rec, "ok", NoHandle)
  /\ sandboxTimeouts' = [p \in Projects |-> "none"]
  /\ timers' = [p \in Projects |-> clearTimeout(p)]
  /\ deadline' = [p \in Projects |-> 0]
  /\ isInitialized' = FALSE
  /\ UNCHANGED <<supabase, sandboxServiceInstance, now, expiry, activeSandboxes,
                 db, remote, owner>>

\* getActiveSandbox, lines 266-269: the registered sandbox of the project, if
\* any.
getActiveSandbox(t, p) ==
  /\ Free(t)
  /\ LET rec == [IdleTask EXCEPT !.op = "get", !.proj = p]
     IN ensureInitialized(t, rec, Return(t, rec, "ok", activeSandboxes[p]))
  /\ UNCHANGED <<setup, expiry, deadline, activeSandboxes, sandboxTimeouts, timers,
                 db, remote, owner>>

\* No call of the service is in flight; a call of the accessor may be
\* waiting for the initialization.
OnlyAccessors == \A u \in TaskIds : tasks[u].op \in {"idle", "accessor"}

\* The accessor is called while no operation runs, cleanup at any time, and
\* the operations of the service one at a time on an instance that has been
\* handed out.
LifeCycleStarts ==
  \/ \E t \in TaskIds : OnlyAccessors /\ getSandboxService(t)
  \/ \E t \in TaskIds : cleanup(t)
  \/ /\ sandboxServiceInstance /\ NoneActive
     /\ \/ Starts(Projects)
        \/ \E t \in TaskIds, p \in Projects : getActiveSandbox(t, p)

NextLifeCycle ==
  \/ LifeCycleStarts
  \/ \E t \in TaskIds : initialize(t)
  \/ Steps
  \/ Env

SpecLifeCycle == InitLife /\ [][NextLifeCycle]_vars

\* Every public operation, called on one project by the holders of the
\* instance, also by one that got it while its initialization is pending;
\* cleanup is called between the operations.
UninitStarts(P) ==
  \/ \E t \in TaskIds : OnlyAccessors /\ getSandboxService(t)
  \/ \E t \in TaskIds : NoneActive /\ cleanup(t)
  \/ /\ sandboxServiceInstance /\ OnlyAccessors
     /\ \/ Starts(P)
        \/ CallerStarts(P)
        \/ \E t \in TaskIds, p \in P : getActiveSandbox(t, p)

NextUninit ==
  \/ UninitStarts(OverlapProjects)
  \/ \E t \in TaskIds : initialize(t)
  \/ Steps
  \/ FragSteps
  \/ Env

SpecUninit == InitLife /\ [][NextUninit]_vars

\* ---------------------------------------------------------------- claims
\* The ensure call that just returned a sandbox directly followed another
\* ensure call of the same project that returned a sandbox (last.before), and
\* that sandbox has stayed alive at the provider since.
C1_SecondCall ==
  /\ last.pc = "done" /\ last.op = "ensure" /\ last.res = "ok"
  /\ last.before.proj = last.proj
  /\ remote[last.before.ret] = "live"

\* C1 as stated: two successive getOrCreateProjectSandbox calls of a single
\* caller for one project, the sandbox staying alive at the provider between
\* them, return the same sandbox, and Sandbox.create is called at most once
\* across both calls.
C1_AsStated ==
  C1_SecondCall =>
    /\ last.ret = last.before.ret
    /\ last.before.nCreate + last.nCreate <= 1

\* C1 amended: the same, when the second call takes the fast path: its
\* liveness probe reports the sandbox running and the extension of the
\* provider's timeout succeeds.
C1_NoDuplicateCreation ==
  (C1_SecondCall /\ last.probe = "alive" /\ last.extend = "ok") =>
    /\ last.ret = last.before.ret
    /\ last.before.nCreate + last.nCreate <= 1

\* The first call created the sandbox and the second call reused it.
C1_Witness ==
  /\ C1_SecondCall /\ last.probe = "alive" /\ last.extend = "ok"
  /\ last.before.nCreate = 1 /\ last.ret = last.before.ret

\* A sandbox that Sandbox.create has returned to a call that has yet to
\* register it (the call awaits the update of the row).
Pending(h) ==
  \E t \in TaskIds :
    tasks[t].op = "ensure" /\ tasks[t].pc = "update" /\ tasks[t].sbx = h

LiveOf(p) == {h \in Handles : remote[h] = "live" /\ owner[h] = p}

\* C2: in every reachable state, overlapping calls included, a project has at
\* most one live sandbox at the provider, and a live sandbox of a project is
\* the one the registry holds for it (or is about to be registered).
C2_AtMostOneLive ==
  \A p \in Projects :
    /\ Cardinality(LiveOf(p)) <= 1
    /\ \A h \in LiveOf(p) : activeSandboxes[p] = h \/ Pending(h)

\* An ensure call that found no registry entry (no probe made) has ended, the
\* row held a sandbox_id when the call read it, and no resume was refused.
C3_Case ==
  /\ last.pc = "done" /\ last.op = "ensure"
  /\ last.probe = "none" /\ last.held # NoHandle /\ ~last.resumeFailed

C3_Resumed ==
  /\ last.hid = last.held
  /\ last.nCreate = 0
  /\ last.res = "ok"
  /\ activeSandboxes[last.proj] = last.ret
  /\ sandboxTimeouts[last.proj] = "armed"

\* C3 as stated: the project is not registered and the row holds a sandbox_id
\* the provider accepts: the call resumes that id, never calls create, and
\* the project is registered with the resumed sandbox.
C3_AsStated == C3_Case => C3_Resumed

\* C3 amended: the same, when the read of the row succeeds.
C3_ResumeNotCreate == (C3_Case /\ last.hid # NoHandle) => C3_Resumed

C3_Witness == C3_Case /\ last.hid # NoHandle /\ C3_Resumed

\* An ensure call whose resume of the persisted id failed has ended.
C4_Case == last.pc = "done" /\ last.op = "ensure" /\ last.resumeFailed

\* C4: after a failed resume the call makes exactly one create call; it throws
\* only if that create throws, and otherwise returns the created sandbox,
\* registered with its timer armed.
C4_FallbackOnResumeFailure ==
  C4_Case =>
    /\ last.nCreate = 1
    /\ last.call \in {"ok", "failed"}
    /\ last.res = "error" <=> last.call = "failed"
    /\ last.call = "ok" =>
         /\ last.ret = last.sbx /\ last.ret # last.hid
         /\ activeSandboxes[last.proj] = last.ret
         /\ sandboxTimeouts[last.proj] = "armed"

C4_Witness == C4_Case /\ last.call = "ok" /\ last.res = "ok"

\* C5 as stated: when killProject has returned, the project is not in the
\* registry and has no timer, whether a sandbox was registered or not and
\* whether sandbox.kill() succeeded or failed.
C5_AsStated ==
  (last.pc = "done" /\ last.op = "kill") =>
    /\ activeSandboxes[last.proj] = NoHandle
    /\ sandboxTimeouts[last.proj] = "none"

\* C6: killProject never throws, whatever sandbox.kill() answers, and when its
\* update of the row succeeded the row's sandbox_id is null on return.
C6_KillBestEffort ==
  (last.pc = "done" /\ last.op = "kill") =>
    /\ last.res = "ok"
    /\ supabase => last.store \in {"ok", "failed"}
    /\ last.store = "ok" => db[last.proj] = NoHandle

\* kill() failed, and the row was cleared all the same.
C6_Witness ==
  /\ last.pc = "done" /\ last.op = "kill" /\ last.call = "failed"
  /\ last.store = "ok" /\ db[last.proj] = NoHandle

\* A pauseProject call that found a registered sandbox and whose
\* sandbox.pause() succeeded has returned.
C7_Case == last.pc = "done" /\ last.op = "pause" /\ last.call = "ok"

\* C7 as stated: on return the row holds the id pause() returned, the project
\* is not in the registry and its timer is cancelled.
C7_AsStated ==
  C7_Case =>
    /\ db[last.proj] = last.hid
    /\ activeSandboxes[last.proj] = NoHandle
    /\ sandboxTimeouts[last.proj] = "none"

\* C7 amended: the project is not in the registry and its timer is cancelled;
\* the row holds the id pause() returned when there is a Supabase client and
\* its update succeeded.
C7_PausePersists ==
  C7_Case =>
    /\ last.res = "ok"
    /\ last.store = "ok" => db[last.proj] = last.hid
    /\ supabase => last.store \in {"ok", "failed"}
    /\ activeSandboxes[last.proj] = NoHandle
    /\ sandboxTimeouts[last.proj] = "none"

\* pause() returned another id than the sandbox's, and the row holds it.
C7_Witness ==
  /\ C7_Case /\ last.store = "ok"
  /\ last.hid # last.sbx /\ db[last.proj] = last.hid

\* C8: pauseProject for a project with no registered sandbox returns at once
\* without a provider call and changes neither the registry, the timers, the
\* row nor the provider.
C8_PauseNoop ==
  [][(last'.pc = "done" /\ last'.op = "pause" /\ ~last'.timer
        /\ activeSandboxes[last'.proj] = NoHandle)
     => /\ last'.res = "ok" /\ last'.call = "none" /\ last'.store = "none"
        /\ UNCHANGED <<activeSandboxes, sandboxTimeouts, db, remote, owner,
                       tasks>>]_vars

\* pauseProject returned for a paused project: not registered, id in the row.
C8_Witness ==
  /\ last.pc = "done" /\ last.op = "pause" /\ ~last.timer /\ last.sbx = NoHandle
  /\ db[last.proj] # NoHandle /\ remote[db[last.proj]] = "paused"

\* C9: killAllSandboxes starts one killProject for every project registered
\* when it is called; when it returns, each of them has had exactly one
\* kill() call answered, also when the kill of another one failed, and every
\* project whose kill succeeded is out of the registry with its timer cleared.
C9_IsolatedBatchKill ==
  [][/\ \A t \in TaskIds :
          (tasks[t].op = "idle" /\ tasks'[t].op = "killAll") =>
            \A p \in Projects :
              activeSandboxes[p] # NoHandle =>
                /\ tasks'[t].sub[p].pc = "kill"
                /\ tasks'[t].sub[p].sbx = activeSandboxes[p]
     /\ (last'.pc = "done" /\ last'.op = "killAll") =>
          /\ last'.res = "ok"
          /\ \A p \in Projects :
               /\ last'.sub[p].pc \in {"skip", "done"}
               /\ last'.sub[p].pc = "done" =>
                    /\ last'.sub[p].n = 1
                    /\ last'.sub[p].call = "ok" =>
                         /\ activeSandboxes'[p] = NoHandle
                         /\ sandboxTimeouts'[p] = "none"]_vars

\* A batch over both projects returned: the kill of p1 failed, p2 is gone.
C9_Witness ==
  /\ last.pc = "done" /\ last.op = "killAll"
  /\ last.sub["p1"].call = "failed" /\ last.sub["p2"].call = "ok"
  /\ activeSandboxes["p1"] # NoHandle /\ activeSandboxes["p2"] = NoHandle

\* Project p is registered and its timer is armed.
RegArmed(p) == activeSandboxes[p] # NoHandle /\ sandboxTimeouts[p] = "armed"

\* An operation invoked by a caller is in flight.
FurtherAccess == \E t \in TaskIds : Active(t) /\ ~tasks[t].timer

\* The pauseProject call made by the timer callback of p has just ended.
TimerPauseEnded(p) ==
  last.pc = "done" /\ last.timer /\ last.op = "pause" /\ last.proj = p

\* Whatever a timer callback runs is pauseProject, never killProject.
TimerNeverKills ==
  /\ \A t \in TaskIds : tasks[t].timer => tasks[t].op = "pause"
  /\ last.timer => last.op = "pause"

\* C10 as stated, in the form a finite run decides: when the pauseProject
\* call of the timer callback has ended, exactly one pause() call was made
\* and the project is out of the registry; the callback never calls kill.
C10_AsStated ==
  /\ TimerNeverKills
  /\ \A p \in Projects :
       TimerPauseEnded(p) =>
         /\ last.call \in {"ok", "failed"}
         /\ activeSandboxes[p] = NoHandle

\* C10 amended: a registered project with an armed timer and no further
\* access has its timer fire and the callback's pauseProject end after exactly
\* one pause() call; the project is out of the registry when that call
\* succeeded, and stays registered (the error is logged) when it threw; the
\* callback never calls kill.
C10_TimeoutPauses ==
  /\ \A p \in Projects : RegArmed(p) ~> (FurtherAccess \/ TimerPauseEnded(p))
  /\ [](/\ TimerNeverKills
        /\ \A p \in Projects :
             TimerPauseEnded(p) =>
               /\ last.call \in {"ok", "failed"}
               /\ last.call = "ok" <=> last.res = "ok"
               /\ last.call = "ok" => /\ activeSandboxes[p] = NoHandle
                                      /\ sandboxTimeouts[p] = "none"
               /\ last.call = "failed" => /\ activeSandboxes[p] = last.sbx
                                          /\ sandboxTimeouts[p] = "fired")

\* The timer of p1 fired, pause() succeeded and p1 is out of the registry.
C10_Witness ==
  /\ TimerPauseEnded("p1") /\ last.call = "ok"
  /\ activeSandboxes["p1"] = NoHandle /\ remote[last.hid] = "paused"

\* ------------------------------------------ claims on the fragment layer
\* The processFragment calls in flight and the one that has just ended.
FragRecs ==
  {tasks[t] : t \in {u \in TaskIds : tasks[u].outer = "fragment"}}
    \cup (IF last.outer = "fragment" THEN {last} ELSE {})

\* The call has issued the step.
Has(rec, step) == \E i \in 1..Len(rec.steps) : rec.steps[i] = step

\* A processFragment call has just returned or thrown.
FragDone == last.pc = "done" /\ last.op = "fragment"

\* C11: a processFragment call with template "code-interpreter-v1" never
\* computes a URL (getHost) and one with any other template never calls
\* runCode; a call that returns, returns the interpreter result for the
\* former and the web result for the latter.
C11_TemplateResult ==
  /\ \A r \in FragRecs :
       IF r.template = "code-interpreter-v1"
       THEN ~Has(r, "getHost") /\ r.variant \in {"none", "interpreter"}
       ELSE ~Has(r, "runCode") /\ r.variant \in {"none", "web"}
  /\ (FragDone /\ last.res = "ok") =>
       IF last.template = "code-interpreter-v1"
       THEN last.variant = "interpreter" /\ Has(last, "runCode")
       ELSE last.variant = "web" /\ Has(last, "getHost")

\* An interpreter fragment was run and its result returned.
C11_Witness ==
  /\ FragDone /\ last.res = "ok"
  /\ last.template = "code-interpreter-v1" /\ last.variant = "interpreter"

\* The steps of a processFragment call, in the order of the code.
Expected(r) ==
  <<"ensure">>
    \o (IF r.deps THEN <<"install">> ELSE <<>>)
    \o <<"write">>
    \o (IF r.token \/ supabase THEN <<"touch">> ELSE <<>>)
    \o (IF r.template = "code-interpreter-v1" THEN <<"runCode">>
        ELSE <<"getHost">>)

IsPrefix(s, e) == Len(s) <= Len(e) /\ \A i \in 1..Len(s) : s[i] = e[i]

\* The steps come in the order of the code, one at a time: while the call is
\* in flight exactly the last step issued is unanswered and none has failed.
\* A call that returns has performed every step; a call that throws, throws
\* for the step it issued last (or for the tracking of the url).
StepOrder ==
  /\ \A r \in FragRecs : IsPrefix(r.steps, Expected(r))
  /\ \A t \in TaskIds :
       tasks[t].outer = "fragment" =>
         /\ Len(tasks[t].steps) = tasks[t].fin + 1
         /\ tasks[t].failed = "none"
  /\ FragDone =>
       /\ last.res \in {"ok", "error"}
       /\ last.res = "ok" =>
            /\ last.steps = Expected(last)
            /\ last.fin = Len(last.steps)
            /\ last.failed = "none"
       /\ last.res = "error" =>
            /\ last.code = "FRAGMENT_PROCESSING_ERROR"
            /\ \/ last.failed = "track" /\ last.steps = Expected(last)
               \/ /\ last.failed = last.steps[Len(last.steps)]
                  /\ last.fin = Len(last.steps) - 1

\* C12 as stated: the steps of a processFragment call happen in the order
\* getOrCreateProjectSandbox, install (with additional dependencies only),
\* file write, activity update, then runCode or getHost, each after the
\* previous one has completed, and when a step fails, the activity update
\* included, no later step is performed and the call throws.
C12_AsStated ==
  /\ StepOrder
  /\ (FragDone /\ last.touch = "failed") =>
       last.res = "error" /\ last.steps[Len(last.steps)] = "touch"

\* C12 amended: the same order, one step at a time; a failure of any step
\* but the activity update ends the call with a thrown error and no later
\* step, while a failed activity update is logged and the remaining step is
\* performed.
C12_StepOrder ==
  /\ StepOrder
  /\ (FragDone /\ last.touch = "failed") =>
       /\ last.steps = Expected(last)
       /\ last.failed \in {"none", "runCode", "track"}

\* The file write failed after the install: the call threw with no later step.
C12_Witness ==
  /\ FragDone /\ last.deps /\ last.failed = "write" /\ last.res = "error"
  /\ last.steps = <<"ensure", "install", "write">>

\* C13: the POST handler calls executeSandboxOperation, and never
\* processFragment, for operation "pause" or "resume", with or without a
\* fragment; otherwise, without a fragment, it answers 400 and changes neither
\* the registry, the timers, the rows nor the provider's sandboxes; otherwise
\* it calls processFragment.
C13_Routing ==
  [][/\ \A t \in TaskIds :
          tasks'[t].route =>
            IF tasks'[t].oper \in {"pause", "resume"}
            THEN tasks'[t].outer = "operation" /\ tasks'[t].steps = <<>>
            ELSE tasks'[t].hasFragment /\ tasks'[t].outer = "fragment"
     /\ (last'.pc = "done" /\ last'.route) =>
          IF last'.oper \in {"pause", "resume"}
          THEN last'.op = "operation" /\ last'.steps = <<>>
          ELSE IF ~last'.hasFragment
               THEN /\ last'.op = "post" /\ last'.status = 400
                    /\ UNCHANGED <<activeSandboxes, sandboxTimeouts, db,
                                   remote, owner, tasks>>
               ELSE last'.op = "fragment" /\ Has(last', "ensure")]_vars

\* A pause request that carried a fragment was answered without deploying it.
C13_Witness ==
  /\ last.pc = "done" /\ last.route /\ last.oper = "pause" /\ last.hasFragment
  /\ last.op = "operation" /\ last.call = "ok"

\* C14: when the executeSandboxOperation or processFragment call of the POST
\* handler throws, the handler answers with status 500 and the message of the
\* ServiceError; it answers 200 only for a call that returned.
C14_FailureIs500 ==
  (last.pc = "done" /\ last.route /\ last.op \in {"fragment", "operation"}) =>
    /\ last.res \in {"ok", "error"}
    /\ last.res = "error" =>
         last.status = 500 /\ last.code = ErrorCode(last.op)
    /\ last.res = "ok" => last.status = 200

\* processFragment threw inside the handler, which answered 500.
C14_Witness ==
  /\ last.pc = "done" /\ last.route /\ last.op = "fragment"
  /\ last.res = "error" /\ last.status = 500

\* C15: executeSandboxOperation "resume" returns success at once, with no
\* provider or database call and no change of the registry, the timers or
\* the rows. With "pause" it does what pauseProject does: nothing for an
\* unregistered project; after a successful pause() the project is out of
\* the registry, its timer cleared and the row written if the update
\* succeeds; it returns success unless pauseProject threw, and then throws.
C15_Operation ==
  [][/\ \A t \in TaskIds :
          tasks'[t].outer = "operation" =>
            tasks'[t].op = "pause" /\ tasks'[t].oper = "pause"
     /\ (last'.pc = "done" /\ last'.op = "operation" /\ last'.oper = "resume") =>
          /\ last'.res = "ok"
          /\ last'.call = "none" /\ last'.store = "none"
          /\ UNCHANGED <<activeSandboxes, sandboxTimeouts, db, remote, owner,
                         tasks>>
     /\ (last'.pc = "done" /\ last'.op = "operation" /\ last'.oper = "pause") =>
          /\ last'.res = "error" <=> last'.call = "failed"
          /\ last'.res = "ok" <=> last'.call \in {"none", "ok"}
          /\ last'.call = "none" =>
               /\ activeSandboxes[last'.proj] = NoHandle
               /\ UNCHANGED <<activeSandboxes, sandboxTimeouts, db, remote,
                              owner, tasks>>
          /\ last'.call = "ok" =>
               /\ activeSandboxes'[last'.proj] = NoHandle
               /\ sandboxTimeouts'[last'.proj] = "none"
               /\ remote'[last'.hid] = "paused"
               /\ last'.store = "ok" => db'[last'.proj] = last'.hid
          /\ last'.call = "failed" =>
               /\ last'.code = "SANDBOX_OPERATION_ERROR"
               /\ last'.cause = "SANDBOX_PAUSE_ERROR"
               /\ UNCHANGED <<activeSandboxes, sandboxTimeouts, db, remote,
                              owner>>]_vars

\* "resume" returned success for a paused project, which stays paused.
C15_Witness ==
  /\ last.pc = "done" /\ last.op = "operation" /\ last.oper = "resume"
  /\ activeSandboxes[last.proj] = NoHandle
  /\ db[last.proj] # NoHandle /\ remote[db[last.proj]] = "paused"

\* C16: when runCode reports an error of the submitted code, processFragment
\* does not throw: it returns the interpreter result, which carries the
\* error as runtimeError.
C16_RuntimeErrorIsData ==
  (FragDone /\ last.runtimeError) =>
    /\ last.res = "ok" /\ last.code = "none"
    /\ last.variant = "interpreter"
    /\ last.ret = last.sbx

C16_Witness ==
  /\ FragDone /\ last.runtimeError /\ last.res = "ok"
  /\ last.steps[Len(last.steps)] = "runCode"

\* C17: processFragment has the sandbox_created event captured at most once
\* per call, only in a call that returns the web result, and never in a call
\* that builds the interpreter result.
C17_TrackWebOnly ==
  /\ \A t \in TaskIds : tasks[t].emitted = 0 /\ tasks[t].sink = "none"
  /\ FragDone =>
       /\ last.emitted <= 1
       /\ last.emitted = 1 => (last.res = "ok" /\ last.variant = "web")
       /\ last.variant # "web" => (last.emitted = 0 /\ last.sink = "none")

\* The web result was returned and its url captured.
C17_Witness ==
  /\ FragDone /\ last.res = "ok" /\ last.variant = "web" /\ last.emitted = 1

\* C18 as stated: when the analytics sink fails while the event is emitted,
\* processFragment still returns the web result.
C18_AsStated ==
  (FragDone /\ last.sink = "throw") =>
    (last.res = "ok" /\ last.variant = "web")

\* C19: a failed database write does not propagate. getOrCreateProjectSandbox
\* whose update of sandbox_id failed returns the created sandbox, registered
\* with its timer armed; pauseProject whose update failed returns with the
\* project out of the registry and the timer cleared; processFragment whose
\* update of last_activity failed (or whose getOrCreateProjectSandbox had its
\* update fail, the sandbox being registered and its timer armed all the
\* same) goes on with the remaining steps and does not throw for it.
C19_StoreBestEffort ==
  /\ (last.pc = "done" /\ last.op = "ensure" /\ last.store = "failed") =>
       /\ last.res = "ok" /\ last.ret = last.sbx
       /\ activeSandboxes[last.proj] = last.ret
       /\ sandboxTimeouts[last.proj] = "armed"
  /\ (last.pc = "done" /\ last.op \in {"pause", "operation"}
        /\ last.store = "failed") =>
       /\ last.res = "ok"
       /\ activeSandboxes[last.proj] = NoHandle
       /\ sandboxTimeouts[last.proj] = "none"
  /\ (FragDone /\ last.store = "failed") =>
       /\ last.failed # "ensure"
       /\ activeSandboxes[last.proj] = last.sbx
       /\ sandboxTimeouts[last.proj] = "armed"
  /\ (FragDone /\ last.touch = "failed") =>
       /\ last.failed \notin {"touch", "write", "install", "ensure"}
       /\ last.cause # "store"
       /\ last.steps = Expected(last)
  /\ \A t \in TaskIds :
       (tasks[t].outer = "fragment" /\ tasks[t].touch = "failed") =>
         tasks[t].pc = "runCode"

\* Both writes of a processFragment call failed and the result was returned.
C19_Witness ==
  /\ FragDone /\ last.store = "failed" /\ last.touch = "failed"
  /\ last.res = "ok" /\ activeSandboxes[last.proj] = last.ret

\* C20 as stated: in getOrCreateProjectSandbox a provider error in
\* setTimeout on the fast path or in Sandbox.create is thrown to the caller as
\* a ServiceError (SANDBOX_CREATE_ERROR, with the provider's error as cause),
\* and after a failed setTimeout neither the row is read, nor a sandbox
\* resumed or created.
C20_AsStated ==
  (last.pc = "done" /\ last.op = "ensure") =>
    /\ (last.extend = "failed" \/ last.call = "failed") =>
         /\ last.res = "error"
         /\ last.code = "SANDBOX_CREATE_ERROR" /\ last.cause = "provider"
    /\ last.extend = "failed" =>
         /\ last.nCreate = 0
         /\ last.hid = NoHandle /\ last.held = NoHandle

\* ------------------------------------------- claims on the session layer
\* C21: without a Supabase client getOrCreateProjectSandbox throws to its
\* caller (SANDBOX_CREATE_ERROR caused by NO_SUPABASE) and calls neither
\* Sandbox.resume nor Sandbox.create: it never reaches the select, the
\* resume, the create or the update. The registry of a service without a
\* client is empty in every reachable state, a project being registered only
\* after the test of line 108, so the call never meets a registered project.
C21_NoStore ==
  ~supabase =>
    /\ \A p \in Projects : activeSandboxes[p] = NoHandle
    /\ \A t \in TaskIds : tasks[t].op # "ensure"
    /\ (last.pc = "done" /\ last.op = "ensure") =>
         /\ last.res = "error"
         /\ last.code = "SANDBOX_CREATE_ERROR" /\ last.cause = "NO_SUPABASE"
         /\ last.nCreate = 0 /\ last.call = "none"
         /\ last.hid = NoHandle /\ ~last.resumeFailed
         /\ last.ret = NoHandle

\* A getOrCreateProjectSandbox call of a service without a client has thrown.
C21_Witness ==
  /\ ~supabase
  /\ last.pc = "done" /\ last.op = "ensure" /\ last.res = "error"
  /\ last.cause = "NO_SUPABASE"

\* The state of project p: LIVE when registered, PAUSED when not registered
\* with a sandbox_id in its row, UNALLOCATED when not registered with none.
StateOf(p) ==
  IF activeSandboxes[p] # NoHandle THEN "LIVE"
  ELSE IF db[p] # NoHandle THEN "PAUSED"
  ELSE "UNALLOCATED"

\* The state changes of a project: every pair of different states but
\* UNALLOCATED -> PAUSED.
Transitions ==
  {<<"UNALLOCATED", "LIVE">>, <<"LIVE", "LIVE">>, <<"LIVE", "PAUSED">>,
   <<"PAUSED", "LIVE">>, <<"LIVE", "UNALLOCATED">>,
   <<"PAUSED", "UNALLOCATED">>}

\* A killProject call on project p, which it found not registered and with a
\* sandbox_id in its row, returns in this step.
KillOfPaused(p) ==
  /\ StateOf(p) = "PAUSED"
  /\ last'.pc = "done" /\ last'.op = "kill" /\ last'.proj = p
  /\ last'.sbx = NoHandle

Resumed ==
  /\ last.pc = "done" /\ last.op = "ensure" /\ last.res = "ok"
  /\ last.hid # NoHandle /\ last.nCreate = 0

\* C23 as stated: when getOrCreateProjectSandbox returns a sandbox it
\* resumed, the row's sandbox_id is the id of the returned sandbox, also
\* when Sandbox.resume answered with an id other than the one in the row.
C23_AsStated ==
  Resumed => db[last.proj] = last.ret

\* A getOrCreateProjectSandbox call has returned a sandbox it created, the
\* update of the row having succeeded.
Created ==
  /\ last.pc = "done" /\ last.op = "ensure" /\ last.res = "ok"
  /\ last.nCreate = 1 /\ last.store = "ok"

\* C24: when getOrCreateProjectSandbox returns a sandbox it created (the row
\* held no sandbox_id, or Sandbox.resume of the id it held threw) and its
\* update of the row succeeded, the row's sandbox_id is the id of the
\* returned sandbox, which is the registered one.
C24_CreatePersists ==
  Created =>
    /\ last.hid = NoHandle \/ last.resumeFailed
    /\ last.ret = last.sbx
    /\ db[last.proj] = last.ret
    /\ activeSandboxes[last.proj] = last.ret

\* The provider rejected the id of the row, and the row holds the id of the
\* sandbox created instead.
C24_Witness ==
  /\ Created /\ last.resumeFailed
  /\ last.hid # NoHandle /\ last.hid # last.ret
  /\ db[last.proj] = last.ret

\* C25 as stated: a getOrCreateProjectSandbox call whose probe of the
\* registered sandbox answered true extends the provider's timeout, rearms
\* the timer and returns the registered sandbox; it neither resumes nor
\* creates a sandbox, neither reads nor writes the row, and leaves the
\* registry entry as it was.
C25_AsStated ==
  /\ (last.pc = "done" /\ last.op = "ensure" /\ last.probe = "alive") =>
       /\ last.res = "ok" /\ last.extend = "ok"
       /\ last.ret = last.sbx
       /\ activeSandboxes[last.proj] = last.ret
       /\ sandboxTimeouts[last.proj] = "armed"
       /\ last.nCreate = 0 /\ ~last.resumeFailed
       /\ last.read = "none" /\ last.store = "none"
  /\ \A t \in TaskIds :
       (tasks[t].op = "ensure" /\ tasks[t].probe = "alive") =>
         tasks[t].pc = "setTimeout"

\* C26 as stated: after a getOrCreateProjectSandbox call whose probe of the
\* registered sandbox answered false or threw, the registry no longer maps
\* the project to that sandbox and no timer is armed for it: a call that
\* returns has registered the sandbox it returns, and a call that throws
\* (Sandbox.create failing) leaves the project out of the registry, its
\* timer cleared.
C26_AsStated ==
  (last.pc = "done" /\ last.op = "ensure" /\ last.probe = "dead") =>
    IF last.res = "ok"
    THEN activeSandboxes[last.proj] = last.ret
    ELSE /\ activeSandboxes[last.proj] # last.sbx
         /\ activeSandboxes[last.proj] = NoHandle
         /\ sandboxTimeouts[last.proj] = "none"

\* C27: when the select of the row's sandbox_id fails, getOrCreateProjectSandbox
\* goes on as if the row held none: it does not throw for it, never calls
\* Sandbox.resume and calls Sandbox.create; the call throws only when the
\* create itself throws.
C27_ReadFailure ==
  /\ \A t \in TaskIds :
       (tasks[t].op = "ensure" /\ tasks[t].read = "failed") =>
         /\ tasks[t].pc \in {"create", "update"}
         /\ tasks[t].hid = NoHandle /\ ~tasks[t].resumeFailed
  /\ (last.pc = "done" /\ last.op = "ensure" /\ last.read = "failed") =>
       /\ last.hid = NoHandle /\ ~last.resumeFailed
       /\ last.nCreate = 1
       /\ last.res = "error" => (last.call = "failed" /\ last.cause = "provider")
       /\ last.res = "ok" => (last.call = "ok" /\ last.ret = last.sbx)

\* The row held a sandbox_id, the select failed, and the call returned the
\* sandbox it created.
C27_Witness ==
  /\ last.pc = "done" /\ last.op = "ensure" /\ last.read = "failed"
  /\ last.held # NoHandle
  /\ last.res = "ok" /\ last.nCreate = 1 /\ last.ret # last.held

\* C28 as stated: however the pauseProject of a timer callback and a
\* getOrCreateProjectSandbox call of the same project interleave at their
\* awaits, with no call in flight the registry maps the project only to a
\* sandbox that is live at the provider; the sandbox the callback took out of
\* the registry is not live at the provider when the callback ends; and the
\* sandbox getOrCreateProjectSandbox returns is registered and live.
C28_AsStated ==
  /\ NoneActive =>
       \A p \in Projects :
         activeSandboxes[p] # NoHandle => remote[activeSandboxes[p]] = "live"
  /\ \A p \in Projects :
       (TimerPauseEnded(p) /\ last.call = "ok") =>
         /\ activeSandboxes[p] = NoHandle
         /\ remote[last.hid] # "live"
  /\ (last.pc = "done" /\ last.op = "ensure" /\ last.res = "ok") =>
       /\ activeSandboxes[last.proj] = last.ret
       /\ remote[last.ret] = "live"

\* C29: a project has at most one timeout pending at any time, and it is the
\* one whose handle the map holds: setSandboxTimeout clears the timeout it
\* replaces, a cleared timeout is not pending and so never fires, and a
\* timeout that has fired is not pending any more, so it fires once.
C29_OneTimer ==
  \A p \in Projects :
    /\ timers[p] <= 1
    /\ timers[p] = 1 <=> sandboxTimeouts[p] = "armed"

\* The fast path has rearmed a timer that was armed: one timeout is pending.
C29_Witness ==
  /\ last.pc = "done" /\ last.op = "ensure" /\ last.extend = "ok"
  /\ last.before.ret = last.ret
  /\ sandboxTimeouts[last.proj] = "armed" /\ timers[last.proj] = 1

\* With no call in flight, project p is registered exactly when its timer is
\* armed and has not fired.
RegisteredIffArmed(p) ==
  activeSandboxes[p] # NoHandle <=> sandboxTimeouts[p] = "armed"

RegisteredFired(p) ==
  /\ NoneActive
  /\ activeSandboxes[p] # NoHandle /\ sandboxTimeouts[p] = "fired"

C31_AsStated ==
  /\ (last.pc = "done" /\ last.op = "ensure" /\ last.res = "ok") =>
       deadline[last.proj] = now + SANDBOX_TIMEOUT
  /\ \A p \in Projects :
       (activeSandboxes[p] # NoHandle /\ sandboxTimeouts[p] = "armed") =>
         deadline[p] <= expiry[activeSandboxes[p]]


\* ------------------------------------------ claims on pause and cleanup
\* C32 as stated: after a pauseProject of a project that paused its sandbox,
\* the next ensureSession of the project calls resume with the id that
\* pause() returned.
C32_AsStated ==
  (last.pc = "done" /\ last.op = "ensure" /\ last.before.pause.proj = last.proj) =>
    last.hid = last.before.pause.hid

\* C32, amended: after a pauseProject of a project that paused its sandbox
\* and whose update of the row succeeded, the next ensureSession of the
\* project, when its select of the row succeeds, calls resume with the id
\* that pause() returned.
C32_RoundTrip ==
  (/\ last.pc = "done" /\ last.op = "ensure"
   /\ last.before.pause.proj = last.proj
   /\ last.before.pause.store = "ok"
   /\ last.read = "ok") =>
    last.hid = last.before.pause.hid

\* The id that pause() returned differs from the one paused, and the next
\* ensureSession has resumed with it.
C32_Witness ==
  /\ last.pc = "done" /\ last.op = "ensure" /\ last.res = "ok"
  /\ last.before.pause.proj = last.proj
  /\ last.before.pause.store = "ok"
  /\ last.before.pause.hid # last.before.pause.sbx
  /\ last.hid = last.before.pause.hid
  /\ last.ret = last.hid

\* C33: when pause() fails inside pauseProject, the call throws the wrapped
\* error SANDBOX_PAUSE_ERROR, and the failing step leaves the row of the
\* project and the registry as they were, the session still registered; a
\* call made by the timer ends the same way, its error going to the catch of
\* the callback (no caller, no response), and the service stays initialized.
C33_PauseFails ==
  [][(last'.pc = "done" /\ last'.op = "pause" /\ last'.call = "failed") =>
       /\ last'.res = "error" /\ last'.code = "SANDBOX_PAUSE_ERROR"
       /\ db' = db
       /\ activeSandboxes' = activeSandboxes
       /\ activeSandboxes'[last'.proj] = last'.sbx /\ last'.sbx # NoHandle
       /\ isInitialized' = isInitialized
       /\ last'.timer => (~last'.route /\ sandboxTimeouts'[last'.proj] = "fired")]_vars

\* A direct pauseProject has thrown after pause() failed, the session still
\* registered.
C33_Witness ==
  /\ last.pc = "done" /\ last.op = "pause" /\ ~last.timer
  /\ last.call = "failed" /\ last.code = "SANDBOX_PAUSE_ERROR"
  /\ activeSandboxes[last.proj] = last.sbx /\ last.sbx # NoHandle

\* The kill() of call t for project p, or the isRunning() of its batch for
\* p, is pending on sandbox h.
ProviderCallOn(t, p, h) ==
  \/ /\ tasks[t].op = "kill" /\ tasks[t].pc = "kill"
     /\ tasks[t].proj = p /\ tasks[t].sbx = h
  \/ /\ tasks[t].op \in {"killAll", "cleanup"}
     /\ tasks[t].sub[p].pc \in {"kill", "probe"} /\ tasks[t].sub[p].sbx = h

\* C34 as stated: when the provider call of killProject or of
\* cleanupInactiveSandboxes answers while the project is registered with
\* another sandbox than the one the call killed or probed, that session
\* stays registered with its timer armed.
C34_AsStated ==
  [][\A t \in TaskIds, p \in Projects, h \in Handles :
       (/\ ProviderCallOn(t, p, h) /\ ~ProviderCallOn(t, p, h)'
        /\ activeSandboxes[p] \notin {NoHandle, h}
        /\ sandboxTimeouts[p] = "armed") =>
         /\ activeSandboxes'[p] = activeSandboxes[p]
         /\ sandboxTimeouts'[p] = "armed"]_vars

\* C35: when getOrCreateProjectSandbox throws for a project that it did not
\* find in the registry (no Supabase client, or Sandbox.create threw), the
\* project is not registered afterwards, it has no timer, and the call has
\* not written the row of the project: the throwing step leaves the store as
\* it was and no update was made before it.
C35_FailedMiss ==
  [][(/\ last'.pc = "done" /\ last'.op = "ensure" /\ last'.res = "error"
      /\ last'.probe = "none" /\ last'.cause # "NOT_INITIALIZED") =>
       /\ last'.cause \in {"NO_SUPABASE", "provider"}
       /\ activeSandboxes'[last'.proj] = NoHandle
       /\ sandboxTimeouts'[last'.proj] = "none"
       /\ db' = db /\ last'.store = "none"
       /\ last'.read = "ok" => db'[last'.proj] = last'.held]_vars

\* Sandbox.create has thrown for a project that was not registered and whose
\* row holds a handle that could not be resumed; the row still holds it.
C35_Witness ==
  /\ last.pc = "done" /\ last.op = "ensure" /\ last.res = "error"
  /\ last.probe = "none" /\ last.cause = "provider" /\ last.resumeFailed
  /\ activeSandboxes[last.proj] = NoHandle /\ sandboxTimeouts[last.proj] = "none"
  /\ db[last.proj] # NoHandle /\ db[last.proj] = last.held

\* The cleanupInactiveSandboxes call of slot t after the step: returned
\* (last) or still waiting for answers.
CleanupAfter(t) ==
  IF last'.pc = "done" /\ last'.op = "cleanup" THEN last' ELSE tasks'[t]

\* C36: when isRunning() of project p answers inside
\* cleanupInactiveSandboxes, the entry and the timer of p go on a false
\* answer and on a throw and stay as they are on a true answer; no other
\* project's entry or timer changes, and neither the store nor the state of
\* any sandbox at the provider changes (no pause, no kill, no write). When
\* the call returns, the projects probed are the ones that were registered,
\* and of these exactly the ones that answered true are still registered.
C36_Cleanup ==
  [][\A t \in TaskIds :
       /\ \A p \in Projects :
            (/\ tasks[t].op = "cleanup" /\ tasks[t].sub[p].pc = "probe"
             /\ CleanupAfter(t).sub[p].pc = "done") =>
              /\ CleanupAfter(t).sub[p].call \in {"true", "false", "throw"}
              /\ IF CleanupAfter(t).sub[p].call = "true"
                 THEN /\ activeSandboxes'[p] = activeSandboxes[p]
                      /\ sandboxTimeouts'[p] = sandboxTimeouts[p]
                      /\ timers'[p] = timers[p]
                 ELSE /\ activeSandboxes'[p] = NoHandle
                      /\ sandboxTimeouts'[p] = "none"
              /\ \A q \in Projects \ {p} :
                   /\ activeSandboxes'[q] = activeSandboxes[q]
                   /\ sandboxTimeouts'[q] = sandboxTimeouts[q]
              /\ db' = db /\ remote' = remote
       /\ (tasks[t].op = "cleanup" /\ tasks'[t].op = "idle") =>
            \A p \in Projects :
              /\ last'.sub[p].pc \in {"skip", "done"}
              /\ activeSandboxes'[p] # NoHandle <=>
                   (last'.sub[p].pc = "done" /\ last'.sub[p].call = "true")
              /\ activeSandboxes'[p] # NoHandle =>
                   activeSandboxes'[p] = last'.sub[p].sbx]_vars

\* cleanupInactiveSandboxes has returned after probing two projects: one
\* answered true and is registered still, the other did not and is gone.
C36_Witness ==
  /\ last.pc = "done" /\ last.op = "cleanup"
  /\ \E p, q \in Projects :
       /\ last.sub[p].call = "true" /\ activeSandboxes[p] = last.sub[p].sbx
       /\ sandboxTimeouts[p] # "none"
       /\ last.sub[q].call = "throw" /\ activeSandboxes[q] = NoHandle
       /\ sandboxTimeouts[q] = "none"

\* ---------------------------------- claims on the life of the service
\* C37: a public operation called on a service that is not initialized
\* (its initialization pending, or after cleanup) throws the plain error of
\* ensureInitialized at once: no call of the service begins, and the step
\* leaves the store, the provider and the registry as they were, and the
\* timers too (the callback of a timer that fires has consumed its timer).
C37_NotInitialized ==
  [][/\ (~isInitialized /\ sandboxServiceInstance) =>
          \A t \in TaskIds :
            (tasks[t].op = "idle" /\ tasks'[t].op # "idle") =>
              tasks'[t].op = "accessor"
     /\ (/\ ~isInitialized /\ last'.pc = "done" /\ tasks' = tasks
         /\ last'.op \notin {"accessor", "post"}) =>
          /\ last'.res = "error" /\ last'.cause = "NOT_INITIALIZED"
          /\ last'.code = "none"
          /\ db' = db /\ remote' = remote /\ owner' = owner
          /\ activeSandboxes' = activeSandboxes
          /\ ~last'.timer =>
               (sandboxTimeouts' = sandboxTimeouts /\ timers' = timers)
     /\ (last'.pc = "done" /\ last'.cause = "NOT_INITIALIZED") =>
          ~isInitialized]_vars

\* processFragment has thrown on a service that cleanup has left with a
\* sandbox still registered.
C37_Witness ==
  /\ last.pc = "done" /\ last.op = "fragment" /\ last.cause = "NOT_INITIALIZED"
  /\ last.res = "error" /\ ~isInitialized
  /\ \E p \in Projects : activeSandboxes[p] # NoHandle

\* C38 as stated: when the kills that cleanup started have settled and no
\* other call is in flight, none of the sessions that were registered at the
\* cleanup is in the registry, also when its kill failed, and no timer is
\* armed.
C38_AsStated ==
  (/\ last.pc = "done" /\ last.op = "killAll" /\ last.res = "ok"
   /\ sandboxServiceInstance /\ ~isInitialized /\ NoneActive) =>
    \A p \in Projects :
      /\ last.sub[p].pc = "done" => activeSandboxes[p] = NoHandle
      /\ sandboxTimeouts[p] # "armed"

\* C39 as stated: the accessor returns an instance that is initialized, and
\* an initialization begins only when none has begun before (no instance
\* yet, nothing initialized, no other call waiting for onInitialize).
C39_AsStated ==
  [][/\ (last'.pc = "done" /\ last'.op = "accessor" /\ last'.res = "ok") =>
          isInitialized'
     /\ \A t \in TaskIds :
          (tasks[t].pc # "onInitialize" /\ tasks'[t].pc = "onInitialize") =>
            /\ ~sandboxServiceInstance /\ ~isInitialized
            /\ \A u \in TaskIds : tasks[u].pc # "onInitialize"]_vars

====
